---- MODULE Spec2Model ----
(***************************************************************************)
(* Model of the medicine-delivery route handlers that compute great-circle *)
(* distances: the delivery-tracking GET, the delivery CRUD handlers that   *)
(* feed it, the delivery-estimate POST, the nearby-pharmacy GET and the    *)
(* stock-check GET.                                                        *)
(*                                                                         *)
(* Number representation.                                                  *)
(*   - A coordinate is an integer number of 1e-4 degrees (Unit).           *)
(*   - A nullable column or JSON value is <<>> (null) or <<v>>.            *)
(*   - A stored timestamp text is <<>> (null), <<1, t>> (an ISO string of  *)
(*     minute t) or <<0, 0>> (a string that new Date() cannot parse).      *)
(*   - A JavaScript number that can be non-finite is a record              *)
(*     [k |-> "num" | "NaN" | "+Inf" | "-Inf", v |-> Int].                 *)
(*   - Distances are integers: centimetres before rounding, tenths of a km *)
(*     after the tracking endpoint's rounding, hundredths of a km after    *)
(*     the rounding of the other three call sites.                         *)
(***************************************************************************)
EXTENDS Integers, Sequences, FiniteSets, TLC

VARIABLES users, pharmacies, orders, delivery, medicines, inventory, now, resp, probe,
          calc, pending, foreignKeys,
          activeViewers, clock, allocated, lastPost, answeredAt, heartbeat,
          gateway, webhookSecret, paymentLog, checkout, orderItems, limitClause

vars == <<users, pharmacies, orders, delivery, medicines, inventory, now, resp, probe,
          calc, pending, foreignKeys,
          activeViewers, clock, allocated, lastPost, answeredAt, heartbeat,
          gateway, webhookSecret, paymentLog, checkout, orderItems, limitClause>>

tables == <<users, pharmacies, orders, delivery, medicines, inventory>>

\* the last direct call of calculateDistance, the requests in flight, and
\* whether the database connection enforces the FOREIGN KEY clauses
others == <<calc, pending, foreignKeys>>

\* the viewer counter: the module-level Map of the viewers route, the
\* server's Date.now() in milliseconds, the number of objects that request
\* bodies have been parsed into, the time of the most recent accepted POST of
\* each viewer ID, the time at which the last viewers request was answered,
\* and the LiveViewersCounter component of one browser
viewers == <<activeViewers, clock, allocated, lastPost, answeredAt, heartbeat>>

\* the payment routes: the status of each payment at the gateway,
\* process.env.RAZORPAY_WEBHOOK_SECRET, and what the last payment request
\* did before it was answered
payments == <<gateway, webhookSecret, paymentLog>>

\* the browser: one RazorpayCheckout component and what it has done
client == <<checkout>>

\* the order_items table, and how the query builder of the build turns
\* .limit(n) into SQL: with a LIMIT clause when n is truthy, or when n >= 0
lists == <<orderItems, limitClause>>

\* what the handlers of the database routes never touch
aside == <<viewers, payments, client, lists>>

\* the state outside the database routes when the server has just started
InitAside ==
  /\ activeViewers = <<>>
  /\ clock = 0
  /\ allocated = 0
  /\ lastPost = <<>>
  /\ answeredAt = 0
  /\ heartbeat = <<>>
  /\ gateway = <<>>
  /\ webhookSecret = ""
  /\ paymentLog = [body |-> <<>>, calls |-> 0, reported |-> <<>>, handled |-> FALSE]
  /\ checkout = [pc |-> "idle", onSuccess |-> "returns", onError |-> TRUE, trail |-> <<>>]
  /\ orderItems = {}
  /\ limitClause = "nonNegative"

----------------------------------------------------------------------------
(* Bounds of the model.                                                    *)

\* the clock runs over the minutes 0..MaxTime
MaxTime == 2

\* a pickedUpAt a client may send that lies after every request time
FutureLead == 1

----------------------------------------------------------------------------
(* JavaScript values.                                                      *)

Null == <<>>

Some(v) == <<v>>

\* JavaScript truthiness of a nullable number: null and 0 are falsy
Truthy(x) == x # Null /\ x[1] # 0

\* truthiness of a stored text: null is falsy (stored texts are non-empty)
TruthyText(x) == x # Null

Num(v) == [k |-> "num", v |-> v]

NaN == [k |-> "NaN", v |-> 0]

PosInf == [k |-> "+Inf", v |-> 0]

NegInf == [k |-> "-Inf", v |-> 0]

Abs(x) == IF x < 0 THEN -x ELSE x

\* floor(x * p / q) for x >= 0, computed without leaving 32 bits
MulDiv(x, p, q) == (x \div q) * p + ((x % q) * p) \div q

\* Math.round(num / den) for den > 0: the nearest integer, halves go up
JSRound(num, den) ==
  LET q == num \div den
      r == num % den
  IN  IF 2 * r >= den THEN q + 1 ELSE q

\* Math.ceil(num / den) for den > 0
JSCeil(num, den) == -((-num) \div den)

\* Math.min(a, b) of an integer a and a JavaScript number b
JSMin(a, b) ==
  CASE b.k = "NaN"  -> NaN
    [] b.k = "-Inf" -> NegInf
    [] b.k = "+Inf" -> Num(a)
    [] OTHER        -> Num(IF a < b.v THEN a ELSE b.v)

\* JSON.stringify of a number: NaN and the infinities become null
ToJSON(x) == IF x.k = "num" THEN Some(x.v) ELSE Null

----------------------------------------------------------------------------
(* Request values.  A query-string parameter or a string in a JSON body is *)
(* a record [s, n]: s = "absent" (null / undefined), "empty" (""), "junk"  *)
(* (text that starts with no digit, "abc"), "num" (the decimal text of n)  *)
(* or "numjunk" (the decimal text of n followed by letters, "45abc").      *)

Absent == [s |-> "absent", n |-> 0]

Empty == [s |-> "empty", n |-> 0]

Junk == [s |-> "junk", n |-> 0]

Text(n) == [s |-> "num", n |-> n]

TextJunk(n) == [s |-> "numjunk", n |-> n]

\* truthiness of a parameter: null and "" are falsy
Present(p) == p.s \notin {"absent", "empty"}

\* parseFloat / parseInt: the longest numeric prefix, NaN when there is none
ParseFloat(p) == IF p.s \in {"num", "numjunk"} THEN Num(p.n) ELSE NaN

ParseInt(p) == IF p.s \in {"num", "numjunk"} THEN Num(p.n) ELSE NaN

IsNaN(x) == x.k = "NaN"

\* a field of a JSON body: left out (undefined) or given with a value
Undef == [def |-> FALSE, val |-> Null]

Def(x) == [def |-> TRUE, val |-> x]

----------------------------------------------------------------------------
(* Geometry.  One Unit is 1e-4 degree; an arc of one Unit on a sphere of   *)
(* radius 6371 km is 6371 * PI / 180 * 1e-4 km = 1111.9492664 cm.          *)

Deg == 10000

\* the arc on a sphere of the equatorial radius, 6378.137 km
ArcCm_Equatorial(d) == d * 1113 + MulDiv(d, 1949, 10000)

\* length in cm of a great-circle arc of d Units: R * c with c = d in radians
ArcCm(d) == d * 1111 + MulDiv(d, 9492, 10000) + (d * 664) \div 10000000

\* two points opposite each other on the sphere
Antipodal(lat1, lon1, lat2, lon2) == lat2 = -lat1 /\ Abs(lon2 - lon1) = 180 * Deg

\* dLat taken between the latitude of one point and the longitude of the other
HaversineCm_Crossed(lat1, lon1, lat2, lon2) == ArcCm(Abs(lat2 - lon1))

\* R * c of the haversine formula, in cm.  For two points on one meridian
\* a = sin^2(dLat/2) and c = |dLat|; for two points on the equator
\* a = sin^2(dLon/2) and c = |dLon| taken the short way round; when one
\* point is a pole its cosine is 0 and again c = |dLat|; for two antipodal
\* points a = sin^2(lat) + cos^2(lat) = 1 and c = PI.  The model draws its
\* coordinates from these four families only.
HaversineCm(lat1, lon1, lat2, lon2) ==
  CASE lon1 = lon2 -> ArcCm(Abs(lat2 - lat1))
    [] lon1 # lon2 /\ lat1 = 0 /\ lat2 = 0 ->
         LET d == Abs(lon2 - lon1)
         IN  ArcCm(IF d > 180 * Deg THEN 360 * Deg - d ELSE d)
    [] lon1 # lon2 /\ (Abs(lat1) = 90 * Deg \/ Abs(lat2) = 90 * Deg) ->
         ArcCm(Abs(lat2 - lat1))
    [] /\ lon1 # lon2 /\ lat1 # 0 /\ Abs(lat1) # 90 * Deg
       /\ Antipodal(lat1, lon1, lat2, lon2) ->
         ArcCm(180 * Deg)

\* the antipodal pairs for which a, evaluated in IEEE doubles, comes out as
\* 1 + 2^-52: sin(x) * sin(x) + cos(x) * cos(x) rounds above 1 for the
\* latitudes of 8 and of 12 degrees, so that Math.sqrt(1 - a) is NaN
Overshoots(lat1, lon1, lat2, lon2) ==
  Antipodal(lat1, lon1, lat2, lon2) /\ Abs(lat1) \in {8 * Deg, 12 * Deg}

validateLatitude(lat) == lat.k = "num" /\ lat.v >= -90 * Deg /\ lat.v <= 90 * Deg

validateLongitude(lng) == lng.k = "num" /\ lng.v >= -180 * Deg /\ lng.v <= 180 * Deg

----------------------------------------------------------------------------
(* Delivery tracking: helpers.                                             *)

\* a distance that carries the sign of the latitude difference
calculateDistanceT_Signed(lat1, lon1, lat2, lon2) ==
  (IF lat2 < lat1 THEN -1 ELSE 1) * JSRound(HaversineCm(lat1, lon1, lat2, lon2), 10000)

\* calculateDistance of the tracking route: km rounded to 1 decimal place,
\* as a number of tenths of a km
calculateDistanceT(lat1, lon1, lat2, lon2) ==
  JSRound(HaversineCm(lat1, lon1, lat2, lon2), 10000)

\* the stepped travel-time table of the estimate route in its place
calculateETA_Stepped(distT) ==
  IF distT <= 20 THEN 10 ELSE IF distT <= 50 THEN 20 ELSE IF distT <= 100 THEN 35
  ELSE IF distT <= 200 THEN 60 ELSE 90

\* calculateETA: Math.ceil(distanceKm * 5), distanceKm given in tenths
calculateETA(distT) == JSCeil(distT * 5, 10)

Max(a, b) == IF a > b THEN a ELSE b

Min(a, b) == IF a < b THEN a ELSE b

\* calculateProgress: current position nullable, the others numbers
calculateProgress(pharmacyLat, pharmacyLon, currentLat, currentLon, destLat, destLon) ==
  IF ~Truthy(currentLat) \/ ~Truthy(currentLon) THEN 0
  ELSE LET totalDistance == calculateDistanceT(pharmacyLat, pharmacyLon, destLat, destLon)
           remainingDistance == calculateDistanceT(currentLat[1], currentLon[1], destLat, destLon)
       IN  IF totalDistance = 0 THEN 100
           ELSE Max(0, Min(100, JSRound((totalDistance - remainingDistance) * 100, totalDistance)))

\* new Date(text).getTime() in minutes: NaN for a text that is no date
DateOf(ts) == IF ts[1] = 1 THEN Num(ts[2]) ELSE NaN

\* (new Date().getTime() - new Date(pickedUpAt).getTime()) / 60000, or 0
TimeSincePickup(pickedUpAt, t) ==
  IF TruthyText(pickedUpAt)
  THEN IF IsNaN(DateOf(pickedUpAt)) THEN NaN ELSE Num(t - DateOf(pickedUpAt).v)
  ELSE Num(0)

\* Math.round((timeSincePickup / estimatedTimeRemaining) * 100)
RoundedRatio(ts, eta) ==
  CASE ts.k = "NaN" -> NaN
    [] ts.k = "num" /\ eta = 0 /\ ts.v = 0 -> NaN
    [] ts.k = "num" /\ eta = 0 /\ ts.v > 0 -> PosInf
    [] ts.k = "num" /\ eta = 0 /\ ts.v < 0 -> NegInf
    [] OTHER -> Num(JSRound(ts.v * 100, eta))

----------------------------------------------------------------------------
(* Responses.  resp is the last response sent: the handler that sent it,   *)
(* its HTTP status, its error code ("" on success) and its JSON body.      *)

NoBody == [none |-> TRUE]

\* probe records the last delivery-estimate, nearby-pharmacy or stock-check
\* request: the latitude and longitude it carried, and what the handler did
\* before it answered (whether it queried the database, whether it called
\* calculateDistance)
Probe(latitude, longitude, result) ==
  [latitude |-> latitude, longitude |-> longitude,
   queried |-> result.queried, computed |-> result.computed]

NoProbe == [latitude |-> [s |-> "absent", n |-> 0], longitude |-> [s |-> "absent", n |-> 0],
            queried |-> FALSE, computed |-> FALSE]

\* calc records the last direct call of calculateDistance: the call site,
\* the two points, the value for (from, to), the value for (to, from), and
\* whether the call site lets the value through to its response
NoCall == [site |-> "none", from |-> <<0, 0>>, to |-> <<0, 0>>, value |-> Null, back |-> Null,
           reaches |-> FALSE]

Reply(op, status, code, body) == [op |-> op, status |-> status, code |-> code, body |-> body]

\* result[0] of a db.select() result that holds one row
Row(result) == CHOOSE r \in result : TRUE

----------------------------------------------------------------------------
(* Delivery tracking GET.                                                  *)

\* the "Calculate tracking information" block: the values of
\* currentDistance, estimatedTimeRemaining and progressPercentage as
\* JavaScript numbers (null when never assigned), at request time t
TrackingInfo(order, deliveryRecord, pharmacy, t) ==
  LET destLat == order.deliveryLatitude
      destLon == order.deliveryLongitude
      none == [currentDistance |-> Null, estimatedTimeRemaining |-> Null,
               progressPercentage |-> Num(0)]
  IN
  IF Truthy(destLat) /\ Truthy(destLon)
  THEN
    IF Truthy(deliveryRecord.currentLatitude) /\ Truthy(deliveryRecord.currentLongitude)
    THEN LET currentDistance ==
               calculateDistanceT(deliveryRecord.currentLatitude[1],
                                  deliveryRecord.currentLongitude[1], destLat[1], destLon[1])
         IN  [currentDistance |-> Some(currentDistance),
              estimatedTimeRemaining |-> Some(calculateETA(currentDistance)),
              progressPercentage |->
                Num(calculateProgress(pharmacy.latitude, pharmacy.longitude,
                                      deliveryRecord.currentLatitude,
                                      deliveryRecord.currentLongitude, destLat[1], destLon[1]))]
    ELSE IF deliveryRecord.status \in {"assigned", "accepted"}
    THEN LET currentDistance ==
               calculateDistanceT(pharmacy.latitude, pharmacy.longitude, destLat[1], destLon[1])
         IN  [currentDistance |-> Some(currentDistance),
              estimatedTimeRemaining |-> Some(calculateETA(currentDistance)),
              progressPercentage |-> Num(0)]
    ELSE IF deliveryRecord.status \in {"picked_up", "on_the_way"}
    THEN LET currentDistance ==
               calculateDistanceT(pharmacy.latitude, pharmacy.longitude, destLat[1], destLon[1])
             estimatedTimeRemaining == calculateETA(currentDistance)
             timeSincePickup == TimeSincePickup(deliveryRecord.pickedUpAt, t)
         IN  [currentDistance |-> Some(currentDistance),
              estimatedTimeRemaining |-> Some(estimatedTimeRemaining),
              progressPercentage |->
                JSMin(50, RoundedRatio(timeSincePickup, estimatedTimeRemaining))]
    ELSE IF deliveryRecord.status = "delivered"
    THEN [currentDistance |-> Some(0), estimatedTimeRemaining |-> Some(0),
          progressPercentage |-> Num(100)]
    ELSE none
  ELSE none

\* the JSON body of the 200 response (the fields the tracking block feeds,
\* and the delivery status)
TrackingBody(order, deliveryRecord, pharmacy, t) ==
  LET info == TrackingInfo(order, deliveryRecord, pharmacy, t)
  IN  [deliveryStatus |-> deliveryRecord.status,
       currentDistance |-> info.currentDistance,
       estimatedTimeRemaining |-> info.estimatedTimeRemaining,
       progressPercentage |-> ToJSON(info.progressPercentage)]

\* the whole handler, for the query parameters orderId and orderNumber
\* (orderNumber: Null when absent, else <<text>>)
TrackingResponse(orderId, orderNumber) ==
  LET orderResult ==
        IF Present(orderId)
        THEN {o \in orders : o.id = ParseInt(orderId).v}
        ELSE {o \in orders : Some(o.orderNumber) = orderNumber}
  IN
  IF ~Present(orderId) /\ orderNumber = Null
  THEN Reply("trackingGET", 400, "MISSING_REQUIRED_PARAMETER", NoBody)
  ELSE IF Present(orderId) /\ IsNaN(ParseInt(orderId))
  THEN Reply("trackingGET", 400, "INVALID_ORDER_ID", NoBody)
  ELSE IF orderResult = {}
  THEN Reply("trackingGET", 404, "ORDER_NOT_FOUND", NoBody)
  ELSE
    LET order == Row(orderResult)
        deliveryResult == {d \in delivery : d.orderId = order.id}
        pharmacyResult == {ph \in pharmacies : ph.id = order.pharmacyId}
    IN
    IF deliveryResult = {}
    THEN Reply("trackingGET", 404, "DELIVERY_NOT_FOUND", NoBody)
    ELSE IF pharmacyResult = {}
    THEN Reply("trackingGET", 404, "PHARMACY_NOT_FOUND", NoBody)
    ELSE Reply("trackingGET", 200, "",
               TrackingBody(order, Row(deliveryResult), Row(pharmacyResult), now))

\* a tracking GET that writes the request time back to the delivery rows
TrackingGET_Stamping(orderId, orderNumber) ==
  /\ resp' = TrackingResponse(orderId, orderNumber)
  /\ delivery' = {[d EXCEPT !.deliveredAt = <<1, now>>] : d \in delivery}
  /\ UNCHANGED <<users, pharmacies, orders, medicines, inventory, now, probe, others, aside>>

TrackingGET(orderId, orderNumber) ==
  /\ resp' = TrackingResponse(orderId, orderNumber)
  /\ UNCHANGED <<tables, now, probe, others, aside>>

----------------------------------------------------------------------------
(* Delivery CRUD: POST and PUT.                                            *)

VALID_STATUSES == {"assigned", "accepted", "picked_up", "on_the_way", "delivered", "failed"}

isValidStatus(status) == status # Null /\ status[1] \in VALID_STATUSES

\* a coordinate of a JSON body as parseFloat reads it (null parses to NaN)
CoordOf(x) == IF x = Null THEN NaN ELSE Num(x[1])

\* the row POST inserts
DeliveryInsertData(body) ==
  [id |-> Cardinality(delivery) + 1,
   orderId |-> ParseInt(body.orderId).v,
   deliveryPersonId |-> IF Present(body.deliveryPersonId)
                        THEN Some(ParseInt(body.deliveryPersonId).v) ELSE Null,
   status |-> body.status[1],
   currentLatitude |-> IF body.currentLatitude.def THEN body.currentLatitude.val ELSE Null,
   currentLongitude |-> IF body.currentLongitude.def THEN body.currentLongitude.val ELSE Null,
   pickedUpAt |-> body.pickedUpAt,
   deliveredAt |-> body.deliveredAt]

\* POST: body.orderId and body.deliveryPersonId are request values,
\* body.status is Null or <<text>>, the coordinates are body fields,
\* body.pickedUpAt and body.deliveredAt are Null or timestamp texts
DeliveryPOSTResult(body) ==
  LET orderId == ParseInt(body.orderId)
      existingDelivery == {d \in delivery : orderId.k = "num" /\ d.orderId = orderId.v}
      orderExists == {o \in orders : orderId.k = "num" /\ o.id = orderId.v}
      userExists == {u \in users : ParseInt(body.deliveryPersonId).k = "num"
                                             /\ u.id = ParseInt(body.deliveryPersonId).v}
      latGiven == body.currentLatitude.def /\ body.currentLatitude.val # Null
      lonGiven == body.currentLongitude.def /\ body.currentLongitude.val # Null
      fail(code) == [reply |-> Reply("deliveryPOST", 400, code, NoBody), rows |-> delivery]
      insertData == DeliveryInsertData(body)
  IN
  IF ~Present(body.orderId) THEN fail("MISSING_ORDER_ID")
  ELSE IF body.status = Null THEN fail("MISSING_STATUS")
  ELSE IF ~isValidStatus(body.status) THEN fail("INVALID_STATUS")
  ELSE IF existingDelivery # {} THEN fail("DUPLICATE_ORDER_DELIVERY")
  ELSE IF orderExists = {} THEN fail("ORDER_NOT_FOUND")
  ELSE IF Present(body.deliveryPersonId) /\ userExists = {} THEN fail("DELIVERY_PERSON_NOT_FOUND")
  ELSE IF latGiven /\ ~validateLatitude(CoordOf(body.currentLatitude.val))
  THEN fail("INVALID_LATITUDE")
  ELSE IF lonGiven /\ ~validateLongitude(CoordOf(body.currentLongitude.val))
  THEN fail("INVALID_LONGITUDE")
  ELSE [reply |-> Reply("deliveryPOST", 201, "", insertData),
        rows |-> delivery \cup {insertData}]

DeliveryPOST(body) ==
  /\ LET result == DeliveryPOSTResult(body)
     IN  resp' = result.reply /\ delivery' = result.rows
  /\ UNCHANGED <<users, pharmacies, orders, medicines, inventory, now, probe, others, aside>>

\* a PUT that stamps the time of every status change, also over a recorded
\* time
DeliveryUpdates_Restamp(existing, body, t) ==
  LET status == body.status.val
      autoPickedUp == /\ body.status.def
                      /\ status = Some("picked_up")
                      /\ ~TruthyText(body.pickedUpAt.val)
      autoDelivered == /\ body.status.def
                       /\ status = Some("delivered")
                       /\ ~TruthyText(body.deliveredAt.val)
  IN  [id |-> existing.id,
       orderId |-> existing.orderId,
       deliveryPersonId |-> IF body.deliveryPersonId.def THEN body.deliveryPersonId.val
                            ELSE existing.deliveryPersonId,
       status |-> IF body.status.def THEN status[1] ELSE existing.status,
       currentLatitude |-> IF body.currentLatitude.def THEN body.currentLatitude.val
                           ELSE existing.currentLatitude,
       currentLongitude |-> IF body.currentLongitude.def THEN body.currentLongitude.val
                            ELSE existing.currentLongitude,
       pickedUpAt |-> IF body.pickedUpAt.def THEN body.pickedUpAt.val
                      ELSE IF autoPickedUp THEN <<1, t>> ELSE existing.pickedUpAt,
       deliveredAt |-> IF body.deliveredAt.def THEN body.deliveredAt.val
                       ELSE IF autoDelivered THEN <<1, t>> ELSE existing.deliveredAt]

\* the row that PUT writes over an existing row, at request time t
DeliveryUpdates(existing, body, t) ==
  LET status == body.status.val
      autoPickedUp == /\ body.status.def
                      /\ status = Some("picked_up")
                      /\ ~TruthyText(body.pickedUpAt.val)
                      /\ ~TruthyText(existing.pickedUpAt)
      autoDelivered == /\ body.status.def
                       /\ status = Some("delivered")
                       /\ ~TruthyText(body.deliveredAt.val)
                       /\ ~TruthyText(existing.deliveredAt)
  IN  [id |-> existing.id,
       orderId |-> existing.orderId,
       deliveryPersonId |-> IF body.deliveryPersonId.def THEN body.deliveryPersonId.val
                            ELSE existing.deliveryPersonId,
       status |-> IF body.status.def THEN status[1] ELSE existing.status,
       currentLatitude |-> IF body.currentLatitude.def THEN body.currentLatitude.val
                           ELSE existing.currentLatitude,
       currentLongitude |-> IF body.currentLongitude.def THEN body.currentLongitude.val
                            ELSE existing.currentLongitude,
       pickedUpAt |-> IF body.pickedUpAt.def THEN body.pickedUpAt.val
                      ELSE IF autoPickedUp THEN <<1, t>> ELSE existing.pickedUpAt,
       deliveredAt |-> IF body.deliveredAt.def THEN body.deliveredAt.val
                       ELSE IF autoDelivered THEN <<1, t>> ELSE existing.deliveredAt]

DeliveryPUTResult(id, body) ==
  LET existing == {d \in delivery : d.id = ParseInt(id).v}
      userExists == {u \in users : Some(u.id) = body.deliveryPersonId.val}
      fail(status, code) == [reply |-> Reply("deliveryPUT", status, code, NoBody),
                             rows |-> delivery]
  IN
  IF ~Present(id) \/ IsNaN(ParseInt(id)) THEN fail(400, "INVALID_ID")
  ELSE IF existing = {} THEN fail(404, "DELIVERY_NOT_FOUND")
  ELSE IF body.status.def /\ ~isValidStatus(body.status.val) THEN fail(400, "INVALID_STATUS")
  ELSE IF body.deliveryPersonId.def /\ body.deliveryPersonId.val # Null /\ userExists = {}
  THEN fail(400, "DELIVERY_PERSON_NOT_FOUND")
  ELSE IF /\ body.currentLatitude.def /\ body.currentLatitude.val # Null
          /\ ~validateLatitude(CoordOf(body.currentLatitude.val))
  THEN fail(400, "INVALID_LATITUDE")
  ELSE IF /\ body.currentLongitude.def /\ body.currentLongitude.val # Null
          /\ ~validateLongitude(CoordOf(body.currentLongitude.val))
  THEN fail(400, "INVALID_LONGITUDE")
  ELSE LET updated == DeliveryUpdates(Row(existing), body, now)
       IN  [reply |-> Reply("deliveryPUT", 200, "", updated),
            rows |-> (delivery \ existing) \cup {updated}]

DeliveryPUT(id, body) ==
  /\ LET result == DeliveryPUTResult(id, body)
     IN  resp' = result.reply /\ delivery' = result.rows
  /\ UNCHANGED <<users, pharmacies, orders, medicines, inventory, now, probe, others, aside>>

\* the passing of time between requests
Tick ==
  /\ now < MaxTime
  /\ now' = now + 1
  /\ UNCHANGED <<tables, resp, probe, others, aside>>

----------------------------------------------------------------------------
(* The tracking specification: one pharmacy, one order, its delivery       *)
(* record written by the delivery POST and PUT, the clock, and tracking    *)
(* GETs.  All positions lie on the meridian MeridianLon.                   *)

MeridianLon == 77 * Deg

BaseLat == 28 * Deg

\* the pharmacy, 0.6 km south of the far destination
PharmacyLat == BaseLat + 50

\* a destination 44 m from the pharmacy (0.0 km after rounding) and one
\* 0.6 km away
NearDestLat == BaseLat + 54

FarDestLat == BaseLat + 104

\* courier positions: 0.9 km and 0.3 km from the far destination, and on it
BehindLat == BaseLat + 23

MidwayLat == BaseLat + 77

\* destinations an order can carry: none, one on the equator (latitude 0),
\* the near one and the far one
Destinations ==
  { <<Null, Null>>, <<Some(0), Some(MeridianLon)>>,
    <<Some(NearDestLat), Some(MeridianLon)>>, <<Some(FarDestLat), Some(MeridianLon)>> }

\* live positions a courier reports
Positions ==
  { <<Null, Null>>, <<Some(0), Some(MeridianLon)>>, <<Some(BehindLat), Some(MeridianLon)>>,
    <<Some(MidwayLat), Some(MeridianLon)>>, <<Some(FarDestLat), Some(MeridianLon)>> }

EmptyPut ==
  [deliveryPersonId |-> Undef, status |-> Undef, currentLatitude |-> Undef,
   currentLongitude |-> Undef, pickedUpAt |-> Undef, deliveredAt |-> Undef]

\* the PUT bodies of the model
PutBodies ==
  {[EmptyPut EXCEPT !.status = Def(Some(st))] : st \in VALID_STATUSES \cup {"bogus"}}
  \cup {[EmptyPut EXCEPT !.currentLatitude = Def(pos[1]), !.currentLongitude = Def(pos[2])] :
          pos \in Positions}
  \cup {[EmptyPut EXCEPT !.currentLatitude = Def(Some(91 * Deg))],
        [EmptyPut EXCEPT !.currentLongitude = Def(Some(181 * Deg))]}
  \cup {[EmptyPut EXCEPT !.pickedUpAt = Def(ts)] :
          ts \in {Null, <<0, 0>>, <<1, 0>>, <<1, MaxTime + FutureLead>>}}
  \cup {[EmptyPut EXCEPT !.status = Def(Some("picked_up")), !.pickedUpAt = Def(Null)],
        [EmptyPut EXCEPT !.deliveredAt = Def(Null)],
        [EmptyPut EXCEPT !.deliveryPersonId = Def(Some(9))],
        [EmptyPut EXCEPT !.deliveryPersonId = Def(Null)]}

\* the PUT requests of the model: the id parameter and the body
PutRequests ==
  {<<Text(1), body>> : body \in PutBodies}
  \cup {<<Text(9), EmptyPut>>, <<Junk, EmptyPut>>, <<Absent, EmptyPut>>}

EmptyPost ==
  [orderId |-> Text(1), status |-> Some("assigned"), deliveryPersonId |-> Absent,
   currentLatitude |-> Undef, currentLongitude |-> Undef,
   pickedUpAt |-> Null, deliveredAt |-> Null]

\* the POST bodies of the model
PostBodies ==
  {[EmptyPost EXCEPT !.status = st] :
     st \in {Null, Some("assigned"), Some("picked_up"), Some("delivered"), Some("bogus")}}
  \cup {[EmptyPost EXCEPT !.orderId = o] : o \in {Absent, Junk, Text(9)}}
  \cup {[EmptyPost EXCEPT !.deliveryPersonId = Text(9)],
        [EmptyPost EXCEPT !.currentLatitude = Def(Some(MidwayLat)),
                          !.currentLongitude = Def(Some(MeridianLon))],
        [EmptyPost EXCEPT !.currentLatitude = Def(Some(-91 * Deg))],
        [EmptyPost EXCEPT !.currentLongitude = Def(Some(-181 * Deg))]}

\* the query parameters of the tracking GETs of the model
TrackingQueries ==
  { <<Text(1), Null>>, <<Absent, Some("ORD-1")>>, <<Absent, Null>>, <<Junk, Null>>,
    <<Text(9), Null>>, <<Empty, Some("ORD-9")>> }

NoReply == Reply("none", 0, "", NoBody)

InitTrack ==
  /\ users = {[id |-> 1]}
  /\ pharmacies = {[id |-> 1, latitude |-> PharmacyLat, longitude |-> MeridianLon,
                    isActive |-> TRUE]}
  /\ \E dest \in Destinations :
       orders = {[id |-> 1, pharmacyId |-> 1, orderNumber |-> "ORD-1",
                  deliveryLatitude |-> dest[1], deliveryLongitude |-> dest[2]]}
  /\ delivery = {}
  /\ medicines = {}
  /\ inventory = {}
  /\ now = 0
  /\ resp = NoReply
  /\ probe = NoProbe
  /\ calc = NoCall
  /\ pending = {}
  /\ foreignKeys = TRUE
  /\ InitAside

NextTrack ==
  \/ \E body \in PostBodies : DeliveryPOST(body)
  \/ \E req \in PutRequests : DeliveryPUT(req[1], req[2])
  \/ \E q \in TrackingQueries : TrackingGET(q[1], q[2])
  \/ Tick

SpecTrack == InitTrack /\ [][NextTrack]_vars

----------------------------------------------------------------------------
(* Properties of the delivery-tracking GET.  A tracking step is a step in  *)
(* which a tracking GET answers 200; it changes no table, so the rows it   *)
(* read are the rows of the state it was taken in.                         *)

TrackingStep == resp' # resp /\ resp'.op = "trackingGET" /\ resp'.status = 200

TheOrder == Row(orders)

TheDelivery == Row(delivery)

ThePharmacy == Row(pharmacies)

\* the order stores both destination coordinates
HasDestination == TheOrder.deliveryLatitude # Null /\ TheOrder.deliveryLongitude # Null

\* the delivery record stores both coordinates of a live position
HasLivePosition == TheDelivery.currentLatitude # Null /\ TheDelivery.currentLongitude # Null

\* pharmacy-to-destination and live-position-to-destination distance, in
\* tenths of a km
TotalDistance ==
  calculateDistanceT(ThePharmacy.latitude, ThePharmacy.longitude,
                     TheOrder.deliveryLatitude[1], TheOrder.deliveryLongitude[1])

RemainingDistance ==
  calculateDistanceT(TheDelivery.currentLatitude[1], TheDelivery.currentLongitude[1],
                     TheOrder.deliveryLatitude[1], TheOrder.deliveryLongitude[1])

\* m is Math.ceil(5 * d) for a distance of dT tenths of a km: the least
\* integer number of minutes that is at least 5 * d
IsCeilOfFivePerKm(m, dT) == 10 * m >= 5 * dT /\ 10 * (m - 1) < 5 * dT

\* C1: every progressPercentage a tracking GET returns is a number between
\* 0 and 100, whatever the stored status, coordinates and pickedUpAt.
C1_ProgressWithinBounds ==
  [][TrackingStep =>
       /\ resp'.body.progressPercentage # Null
       /\ resp'.body.progressPercentage[1] >= 0
       /\ resp'.body.progressPercentage[1] <= 100]_vars

\* C2: a tracking GET of an order whose delivery record is 'delivered'
\* returns progressPercentage 100, whatever live position and destination
\* are stored.
C2_DeliveredIsComplete ==
  [][TrackingStep /\ TheDelivery.status = "delivered" =>
       resp'.body.progressPercentage = Some(100)]_vars

\* C3: with destination coordinates and a live position stored, the
\* progressPercentage is max(0, min(100, round((total - remaining) / total
\* * 100))), and 100 when total is 0.
C3_ProgressFromDistances ==
  [][TrackingStep /\ HasDestination /\ HasLivePosition =>
       resp'.body.progressPercentage =
         Some(IF TotalDistance = 0 THEN 100
              ELSE Max(0, Min(100, JSRound((TotalDistance - RemainingDistance) * 100,
                                           TotalDistance))))]_vars

\* C4: while 'picked_up' or 'on_the_way' with no live position stored, the
\* progressPercentage is the number min(50, round(minutes since pickedUpAt /
\* estimatedTimeRemaining * 100)): never above 50, and 0 when pickedUpAt is
\* not set.
C4_PickupHeuristic ==
  [][TrackingStep /\ TheDelivery.status \in {"picked_up", "on_the_way"} /\ ~HasLivePosition =>
       LET p == resp'.body.progressPercentage
           eta == resp'.body.estimatedTimeRemaining
           at == TheDelivery.pickedUpAt
       IN  /\ p # Null
           /\ p[1] <= 50
           /\ at = Null => p[1] = 0
           /\ (at # Null /\ at[1] = 1 /\ eta # Null /\ eta[1] > 0) =>
                p[1] = Min(50, JSRound((now - at[2]) * 100, eta[1]))]_vars

\* C5: while 'assigned' or 'accepted' with no live position
\* stored, the progressPercentage is 0 and estimatedTimeRemaining is
\* computed from the pharmacy-to-destination distance.
C5_AssignedZeroWithETA ==
  [][TrackingStep /\ TheDelivery.status \in {"assigned", "accepted"} /\ ~HasLivePosition =>
       /\ resp'.body.progressPercentage = Some(0)
       /\ resp'.body.estimatedTimeRemaining # Null
       /\ HasDestination =>
            IsCeilOfFivePerKm(resp'.body.estimatedTimeRemaining[1], TotalDistance)]_vars

\* C8: in every tracking response the estimatedTimeRemaining is
\* ceil(5 * currentDistance in km) minutes, and is null exactly when no
\* distance was computed; the stepped travel-time table plays no part.
C8_LinearETA ==
  [][TrackingStep =>
       LET d == resp'.body.currentDistance
           eta == resp'.body.estimatedTimeRemaining
       IN  /\ (d = Null) <=> (eta = Null)
           /\ d # Null => IsCeilOfFivePerKm(eta[1], d[1])]_vars

\* a tracking GET has answered 5 minutes for the 0.9 km between a live
\* position and the destination (the stepped table would say 10)
C8_Witness ==
  /\ resp.op = "trackingGET" /\ resp.status = 200
  /\ resp.body.currentDistance = Some(9)
  /\ resp.body.estimatedTimeRemaining = Some(5)

----------------------------------------------------------------------------
(* Delivery-estimate POST.  Distances are hundredths of a km, fees cents.  *)

\* calculateDistance of the estimate route: km rounded to 2 decimal places
calculateDistanceE(lat1, lon1, lat2, lon2) ==
  JSRound(HaversineCm(lat1, lon1, lat2, lon2), 1000)

\* the table with the boundary distances moved to the upper bucket
calculateTravelTime_Strict(distance) ==
  IF distance < 200 THEN 10
  ELSE IF distance < 500 THEN 20
  ELSE IF distance < 1000 THEN 35
  ELSE IF distance < 2000 THEN 60
  ELSE 90

calculateTravelTime(distance) ==
  IF distance <= 200 THEN 10
  ELSE IF distance <= 500 THEN 20
  ELSE IF distance <= 1000 THEN 35
  ELSE IF distance <= 2000 THEN 60
  ELSE 90

\* the fee tiers with the boundary distances moved to the upper tier
calculateDeliveryFee_Strict(distance) ==
  IF distance < 200 THEN 200
  ELSE IF distance < 500 THEN 350
  ELSE IF distance < 1000 THEN 500
  ELSE IF distance < 2000 THEN 750
  ELSE 1000

calculateDeliveryFee(distance) ==
  IF distance <= 200 THEN 200
  ELSE IF distance <= 500 THEN 350
  ELSE IF distance <= 1000 THEN 500
  ELSE IF distance <= 2000 THEN 750
  ELSE 1000

\* body.pharmacyId, body.deliveryLatitude and body.deliveryLongitude are
\* request values ("absent" stands for undefined and for null).  The reply
\* carries, next to the response, what the handler did on the way:
\* queried tells whether the database was queried, computed whether a
\* distance was computed.
EstimateResult(body) ==
  LET parsedPharmacyId == ParseInt(body.pharmacyId)
      deliveryLat == ParseFloat(body.deliveryLatitude)
      deliveryLon == ParseFloat(body.deliveryLongitude)
      pharmacy == {ph \in pharmacies : ph.id = parsedPharmacyId.v}
      early(code) == [reply |-> Reply("estimatePOST", 400, code, NoBody),
                      queried |-> FALSE, computed |-> FALSE]
  IN
  IF ~Present(body.pharmacyId) THEN early("MISSING_PHARMACY_ID")
  ELSE IF body.deliveryLatitude.s = "absent" THEN early("MISSING_DELIVERY_LATITUDE")
  ELSE IF body.deliveryLongitude.s = "absent" THEN early("MISSING_DELIVERY_LONGITUDE")
  ELSE IF IsNaN(parsedPharmacyId) THEN early("INVALID_PHARMACY_ID")
  ELSE IF IsNaN(deliveryLat) \/ ~validateLatitude(deliveryLat) THEN early("INVALID_LATITUDE")
  ELSE IF IsNaN(deliveryLon) \/ ~validateLongitude(deliveryLon) THEN early("INVALID_LONGITUDE")
  ELSE IF pharmacy = {}
  THEN [reply |-> Reply("estimatePOST", 404, "PHARMACY_NOT_FOUND", NoBody),
        queried |-> TRUE, computed |-> FALSE]
  ELSE
    LET pharmacyData == Row(pharmacy)
    IN
    IF pharmacyData.latitude = 0 \/ pharmacyData.longitude = 0
    THEN [reply |-> Reply("estimatePOST", 400, "PHARMACY_COORDINATES_MISSING", NoBody),
          queried |-> TRUE, computed |-> FALSE]
    ELSE
      LET distance == calculateDistanceE(pharmacyData.latitude, pharmacyData.longitude,
                                         deliveryLat.v, deliveryLon.v)
          preparationTime == 15
          travelTime == calculateTravelTime(distance)
          bufferTime == 5
      IN  [reply |->
             Reply("estimatePOST", 200, "",
                   [pharmacyId |-> pharmacyData.id,
                    distance |-> distance,
                    travelTime |-> travelTime,
                    estimatedDeliveryTime |-> preparationTime + travelTime + bufferTime,
                    deliveryFee |-> calculateDeliveryFee(distance),
                    estimatedDeliveryAt |-> now + preparationTime + travelTime + bufferTime]),
           queried |-> TRUE, computed |-> TRUE]

EstimatePOST(body) ==
  /\ LET result == EstimateResult(body)
     IN  /\ resp' = result.reply
         /\ probe' = Probe(body.deliveryLatitude, body.deliveryLongitude, result)
  /\ UNCHANGED <<tables, now, others, aside>>

----------------------------------------------------------------------------
(* Result lists.  A table is read in id order; Array.prototype.sort is     *)
(* stable, so rows of equal key keep that order.                           *)

\* the one value of a set of one value
TheValue(set) == CHOOSE value \in set : TRUE

\* the rows of a table, smallest id first (ids are primary keys)
InIdOrder(rows) ==
  LET ids == {r.id : r \in rows}
      Placed(place) == [k \in 1..Cardinality(rows) |->
                          CHOOSE r \in rows : place[r.id] = k]
  IN  TheValue({Placed(place) :
                  place \in {[i \in ids |-> Cardinality({j \in ids : j < i}) + 1]}})

\* filter: the items of a sequence whose id is in keep, in order
Filter(seq, keep) ==
  LET Kept(item) == item.id \in keep
  IN  SelectSeq(seq, Kept)

\* sort((a, b) => a.key - b.key): an item comes after the items of smaller
\* key and after the earlier items of equal key
SortByKey(seq) ==
  LET Sorted(items) ==
        LET Before(j, i) == \/ items[j].key < items[i].key
                            \/ items[j].key = items[i].key /\ j < i
            Placed(place) == [k \in 1..Len(items) |->
                                items[CHOOSE i \in 1..Len(items) : place[i] = k]]
        IN  TheValue({Placed(place) :
                        place \in {[i \in 1..Len(items) |->
                                      Cardinality({j \in 1..Len(items) : Before(j, i)}) + 1]}})
  IN  TheValue({Sorted(items) : items \in {seq}})

\* slice(0), the whole list
Slice_Whole(seq, limit) == seq

\* slice(0, limit)
Slice(seq, limit) == SubSeq(seq, 1, Min(limit, Len(seq)))

----------------------------------------------------------------------------
(* Nearby-pharmacy GET.  q.latitude, q.longitude, q.radius and q.limit are *)
(* query parameters (radius in hundredths of a km), q.isActive is          *)
(* "absent", "true" or "false".                                            *)

calculateDistanceN(lat1, lon1, lat2, lon2) ==
  JSRound(HaversineCm(lat1, lon1, lat2, lon2), 1000)

NearbyResult(q) ==
  LET userLatitude == ParseFloat(q.latitude)
      userLongitude == ParseFloat(q.longitude)
      radius == IF Present(q.radius) THEN ParseFloat(q.radius) ELSE Num(1000)
      limit == IF Present(q.limit)
               THEN (IF IsNaN(ParseInt(q.limit)) THEN NaN ELSE Num(Min(ParseInt(q.limit).v, 50)))
               ELSE Num(10)
      isActiveFilter == q.isActive # "false"
      early(code) == [reply |-> Reply("nearbyGET", 400, code, NoBody),
                      queried |-> FALSE, computed |-> FALSE]
  IN
  IF ~Present(q.latitude) \/ ~Present(q.longitude) THEN early("MISSING_COORDINATES")
  ELSE IF IsNaN(userLatitude) \/ userLatitude.v < -90 * Deg \/ userLatitude.v > 90 * Deg
  THEN early("INVALID_LATITUDE")
  ELSE IF IsNaN(userLongitude) \/ userLongitude.v < -180 * Deg \/ userLongitude.v > 180 * Deg
  THEN early("INVALID_LONGITUDE")
  ELSE IF IsNaN(radius) \/ radius.v <= 0 \/ radius.v > 5000 THEN early("INVALID_RADIUS")
  ELSE IF IsNaN(limit) \/ limit.v <= 0 THEN early("INVALID_LIMIT")
  ELSE
    LET allPharmacies ==
          InIdOrder(IF isActiveFilter THEN {ph \in pharmacies : ph.isActive} ELSE pharmacies)
        withDistance ==
          [i \in 1..Len(allPharmacies) |->
             [id |-> allPharmacies[i].id,
              key |-> calculateDistanceN(userLatitude.v, userLongitude.v,
                                         allPharmacies[i].latitude, allPharmacies[i].longitude)]]
        inRadius == {withDistance[i].id : i \in {j \in 1..Len(withDistance) :
                                                   withDistance[j].key <= radius.v}}
        pharmaciesWithDistance == Slice(SortByKey(Filter(withDistance, inRadius)), limit.v)
    IN  [reply |->
           Reply("nearbyGET", 200, "",
                 [pharmacies |-> [i \in 1..Len(pharmaciesWithDistance) |->
                                    [id |-> pharmaciesWithDistance[i].id,
                                     distance |-> pharmaciesWithDistance[i].key]],
                  radius |-> radius.v,
                  count |-> Len(pharmaciesWithDistance)]),
         queried |-> TRUE, computed |-> allPharmacies # <<>>]

NearbyGET(q) ==
  /\ LET result == NearbyResult(q)
     IN  /\ resp' = result.reply
         /\ probe' = Probe(q.latitude, q.longitude, result)
  /\ UNCHANGED <<tables, now, others, aside>>

----------------------------------------------------------------------------
(* Stock-check GET.  q.medicineId, q.latitude, q.longitude, q.radius and   *)
(* q.limit are query parameters; prices are cents.                         *)

\* calculateDistance of the stock-check route returns R * c unrounded; the
\* call site rounds it with parseFloat(distance.toFixed(2))
calculateDistanceS(lat1, lon1, lat2, lon2) == HaversineCm(lat1, lon1, lat2, lon2)

\* parseFloat(x.toFixed(2)) of a number of cm, in hundredths of a km
ToFixed2(cm) == JSRound(cm, 1000)

\* price - price * discount / 100, then parseFloat(toFixed(2)), in cents
FinalPrice(price, discountPercentage) == JSRound(price * (100 - discountPercentage), 100)

StockResult(q) ==
  LET medicineId == ParseInt(q.medicineId)
      located == Present(q.latitude) \/ Present(q.longitude)
      userLatitude == ParseFloat(q.latitude)
      userLongitude == ParseFloat(q.longitude)
      radius == IF Present(q.radius) THEN ParseFloat(q.radius) ELSE Num(2000)
      limit == IF Present(q.limit) THEN ParseInt(q.limit) ELSE Num(20)
      early(code) == [reply |-> Reply("stockGET", 400, code, NoBody),
                      queried |-> FALSE, computed |-> FALSE]
  IN
  IF ~Present(q.medicineId) THEN early("MISSING_MEDICINE_ID")
  ELSE IF IsNaN(medicineId) \/ medicineId.v <= 0 THEN early("INVALID_MEDICINE_ID")
  ELSE IF located /\ (~Present(q.latitude) \/ ~Present(q.longitude))
  THEN early("INCOMPLETE_LOCATION")
  ELSE IF located /\ (\/ IsNaN(userLatitude) \/ IsNaN(userLongitude)
                      \/ userLatitude.v < -90 * Deg \/ userLatitude.v > 90 * Deg
                      \/ userLongitude.v < -180 * Deg \/ userLongitude.v > 180 * Deg)
  THEN early("INVALID_LOCATION")
  ELSE IF Present(q.radius) /\ (IsNaN(radius) \/ radius.v <= 0) THEN early("INVALID_RADIUS")
  ELSE IF Present(q.limit) /\ (IsNaN(limit) \/ limit.v <= 0) THEN early("INVALID_LIMIT")
  ELSE IF {m \in medicines : m.id = medicineId.v} = {}
  THEN [reply |-> Reply("stockGET", 404, "MEDICINE_NOT_FOUND", NoBody),
        queried |-> TRUE, computed |-> FALSE]
  ELSE
    LET pharmacyOf(record) == Row({ph \in pharmacies : ph.id = record.pharmacyId})
        inventoryRecords ==
          InIdOrder({record \in inventory :
                       /\ {ph \in pharmacies : ph.id = record.pharmacyId} # {}
                       /\ record.medicineId = medicineId.v
                       /\ record.isAvailable
                       /\ record.quantity > 0
                       /\ pharmacyOf(record).isActive})
        item(record) ==
          LET finalPrice == FinalPrice(record.price, record.discountPercentage)
              distance ==
                IF located
                THEN Some(ToFixed2(calculateDistanceS(userLatitude.v, userLongitude.v,
                                                      pharmacyOf(record).latitude,
                                                      pharmacyOf(record).longitude)))
                ELSE Null
          IN  [id |-> record.id,
               pharmacyId |-> record.pharmacyId,
               finalPrice |-> finalPrice,
               distance |-> distance,
               key |-> IF located THEN distance[1] ELSE finalPrice]
        all == [i \in 1..Len(inventoryRecords) |-> item(inventoryRecords[i])]
        inRadius == {all[i].id : i \in {j \in 1..Len(all) :
                                          ~located \/ all[j].distance[1] <= radius.v}}
        availability == SortByKey(Filter(all, inRadius))
        sliced == Slice(availability, Min(limit.v, 100))
    IN  [reply |->
           Reply("stockGET", 200, "",
                 [availability |-> [i \in 1..Len(sliced) |->
                                      [pharmacyId |-> sliced[i].pharmacyId,
                                       finalPrice |-> sliced[i].finalPrice,
                                       distance |-> sliced[i].distance]],
                  totalPharmacies |-> Len(availability)]),
         queried |-> TRUE, computed |-> located /\ inventoryRecords # <<>>]

StockGET(q) ==
  /\ LET result == StockResult(q)
     IN  /\ resp' = result.reply
         /\ probe' = Probe(q.latitude, q.longitude, result)
  /\ UNCHANGED <<tables, now, others, aside>>

----------------------------------------------------------------------------
(* The estimate specification: three pharmacies on the meridian, one       *)
(* medicine and its stock, and the three handlers that take a user         *)
(* position from the request.                                              *)

\* offsets north of the pharmacy, in Units, whose distances are 0, 2.00,
\* 2.01, 5.00, 5.01, 10.00 (rounded down), 10.01, 20.00, 20.02 and 30.02 km
DeliveryOffsets == {0, 180, 181, 450, 451, 899, 900, 1799, 1800, 2700}

\* user positions the handlers accept: on the meridian, and the poles with
\* the extreme longitudes
GoodLocations ==
  {<<Text(PharmacyLat + off), Text(MeridianLon)>> : off \in DeliveryOffsets}
  \cup {<<Text(90 * Deg), Text(180 * Deg)>>, <<Text(-90 * Deg), Text(-180 * Deg)>>}

\* latitudes and longitudes that are out of range or no number
BadLatitudes == {Junk, Empty, TextJunk(PharmacyLat), Text(90 * Deg + 1), Text(-90 * Deg - 1)}

BadLongitudes == {Junk, Empty, TextJunk(MeridianLon), Text(180 * Deg + 1), Text(-180 * Deg - 1)}

Locations ==
  GoodLocations
  \cup {<<lat, Text(MeridianLon)>> : lat \in BadLatitudes \cup {Absent}}
  \cup {<<Text(PharmacyLat), lon>> : lon \in BadLongitudes \cup {Absent}}
  \cup {<<Absent, Absent>>, <<Junk, Junk>>}

EstimateBodies ==
  {[pharmacyId |-> Text(1), deliveryLatitude |-> loc[1], deliveryLongitude |-> loc[2]] :
     loc \in Locations}
  \cup {[pharmacyId |-> id, deliveryLatitude |-> loc[1], deliveryLongitude |-> loc[2]] :
          id \in {Absent, Junk, Text(3), Text(9)},
          loc \in {<<Text(PharmacyLat), Text(MeridianLon)>>, <<Junk, Text(MeridianLon)>>}}

NearbyQueries ==
  {[latitude |-> loc[1], longitude |-> loc[2], radius |-> Absent, limit |-> Absent,
    isActive |-> "absent"] : loc \in Locations}
  \cup {[latitude |-> Text(PharmacyLat + 180), longitude |-> Text(MeridianLon),
         radius |-> r, limit |-> l, isActive |-> a] :
          r \in {Absent, Text(300), Text(5000), Text(5001), Text(0), Junk},
          l \in {Absent, Text(1), Text(60), Text(0), Junk},
          a \in {"true", "false"}}

StockQueries ==
  {[medicineId |-> Text(1), latitude |-> loc[1], longitude |-> loc[2], radius |-> Absent,
    limit |-> Absent] : loc \in Locations}
  \cup {[medicineId |-> Text(1), latitude |-> Empty, longitude |-> Absent, radius |-> Absent,
         limit |-> Absent]}
  \cup {[medicineId |-> m, latitude |-> Absent, longitude |-> Absent, radius |-> Absent,
         limit |-> Absent] : m \in {Absent, Junk, Text(0), Text(9)}}
  \cup {[medicineId |-> Text(1), latitude |-> Text(PharmacyLat + 180),
         longitude |-> Text(MeridianLon), radius |-> r, limit |-> l] :
          r \in {Absent, Text(300), Text(0), Junk}, l \in {Absent, Text(1), Text(0), Junk}}

InitEstimate ==
  /\ users = {[id |-> 1]}
  /\ \E active \in BOOLEAN :
       pharmacies = {[id |-> 1, latitude |-> PharmacyLat, longitude |-> MeridianLon,
                      isActive |-> TRUE],
                     [id |-> 2, latitude |-> PharmacyLat + 450, longitude |-> MeridianLon,
                      isActive |-> active],
                     [id |-> 3, latitude |-> 0, longitude |-> MeridianLon,
                      isActive |-> TRUE]}
  /\ orders = {}
  /\ delivery = {}
  /\ medicines = {[id |-> 1]}
  /\ \E quantity \in {0, 5} :
       inventory = {[id |-> 1, pharmacyId |-> 1, medicineId |-> 1, quantity |-> quantity,
                     price |-> 1000, discountPercentage |-> 10, isAvailable |-> TRUE],
                    [id |-> 2, pharmacyId |-> 2, medicineId |-> 1, quantity |-> 3,
                     price |-> 800, discountPercentage |-> 0, isAvailable |-> TRUE]}
  /\ now = 0
  /\ resp = NoReply
  /\ probe = NoProbe
  /\ calc = NoCall
  /\ pending = {}
  /\ foreignKeys = TRUE
  /\ InitAside

NextEstimate ==
  \/ \E body \in EstimateBodies : EstimatePOST(body)
  \/ \E q \in NearbyQueries : NearbyGET(q)
  \/ \E q \in StockQueries : StockGET(q)

SpecEstimate == InitEstimate /\ [][NextEstimate]_vars

----------------------------------------------------------------------------
(* Properties of the estimate route's lookups and of the validation of     *)
(* the user position.                                                      *)

EstimateReply(r) == r.op = "estimatePOST" /\ r.status = 200

EstimateStep == resp' # resp /\ EstimateReply(resp')

\* C6: the travel time of an estimate is 10 up to 2 km, 20 above 2 up to
\* 5 km, 35 above 5 up to 10 km, 60 above 10 up to 20 km and 90 above
\* 20 km, and an estimate for a distance not smaller than that of the
\* estimate before it has a travel time not smaller.
C6_TravelTimeSteps ==
  [][EstimateStep =>
       LET d == resp'.body.distance
           t == resp'.body.travelTime
       IN  /\ \/ d <= 200 /\ t = 10
              \/ 200 < d /\ d <= 500 /\ t = 20
              \/ 500 < d /\ d <= 1000 /\ t = 35
              \/ 1000 < d /\ d <= 2000 /\ t = 60
              \/ 2000 < d /\ t = 90
           /\ (EstimateReply(resp) /\ resp.body.distance <= d) => resp.body.travelTime <= t]_vars

\* an estimate for exactly 20.00 km has answered 60 minutes of travel
C6_Witness ==
  /\ EstimateReply(resp)
  /\ resp.body.distance = 2000
  /\ resp.body.travelTime = 60
  /\ resp.body.estimatedDeliveryTime = 80

\* C7: the delivery fee of an estimate is 2.00 up to 2 km, 3.50 above 2 up
\* to 5 km, 5.00 above 5 up to 10 km, 7.50 above 10 up to 20 km and 10.00
\* above 20 km, and an estimate for a distance not smaller than that of
\* the estimate before it has a fee not smaller.
C7_DeliveryFeeSteps ==
  [][EstimateStep =>
       LET d == resp'.body.distance
           fee == resp'.body.deliveryFee
       IN  /\ \/ d <= 200 /\ fee = 200
              \/ 200 < d /\ d <= 500 /\ fee = 350
              \/ 500 < d /\ d <= 1000 /\ fee = 500
              \/ 1000 < d /\ d <= 2000 /\ fee = 750
              \/ 2000 < d /\ fee = 1000
           /\ (EstimateReply(resp) /\ resp.body.distance <= d) => resp.body.deliveryFee <= fee]_vars

\* an estimate for exactly 5.00 km has answered a fee of 3.50
C7_Witness ==
  /\ EstimateReply(resp)
  /\ resp.body.distance = 500
  /\ resp.body.deliveryFee = 350

\* a request value that is given and is not the text of a number
NonNumeric(p) == p.s \in {"empty", "junk", "numjunk"}

BadLatitude(p) == NonNumeric(p) \/ (p.s = "num" /\ (p.n < -90 * Deg \/ p.n > 90 * Deg))

BadLongitude(p) == NonNumeric(p) \/ (p.s = "num" /\ (p.n < -180 * Deg \/ p.n > 180 * Deg))

\* C9: a delivery-estimate, nearby-pharmacy or stock-check request whose
\* latitude or longitude is non-numeric or out of range is answered 400
\* before the database is queried and before a distance is computed.
C9_BadPositionRejected ==
  (/\ resp.op \in {"estimatePOST", "nearbyGET", "stockGET"}
   /\ BadLatitude(probe.latitude) \/ BadLongitude(probe.longitude))
  => (resp.status = 400 /\ ~probe.queried /\ ~probe.computed)

----------------------------------------------------------------------------
(* The frame specification: the four handlers that compute distances run   *)
(* interleaved with the handlers that write the delivery table.            *)

FramePutRequests ==
  {<<Text(1), [EmptyPut EXCEPT !.status = Def(Some(st))]>> : st \in {"picked_up", "delivered"}}
  \cup {<<Text(1), [EmptyPut EXCEPT !.currentLatitude = Def(Some(MidwayLat)),
                                    !.currentLongitude = Def(Some(MeridianLon))]>>}

FrameLocations ==
  {<<Text(PharmacyLat + 180), Text(MeridianLon)>>, <<Junk, Text(MeridianLon)>>}

InitFrame ==
  /\ users = {[id |-> 1]}
  /\ pharmacies = {[id |-> 1, latitude |-> PharmacyLat, longitude |-> MeridianLon,
                    isActive |-> TRUE],
                   [id |-> 2, latitude |-> PharmacyLat + 450, longitude |-> MeridianLon,
                    isActive |-> TRUE]}
  /\ orders = {[id |-> 1, pharmacyId |-> 1, orderNumber |-> "ORD-1",
                deliveryLatitude |-> Some(FarDestLat), deliveryLongitude |-> Some(MeridianLon)]}
  /\ delivery = {}
  /\ medicines = {[id |-> 1]}
  /\ inventory = {[id |-> 1, pharmacyId |-> 1, medicineId |-> 1, quantity |-> 5,
                   price |-> 1000, discountPercentage |-> 10, isAvailable |-> TRUE]}
  /\ now = 0
  /\ resp = NoReply
  /\ probe = NoProbe
  /\ calc = NoCall
  /\ pending = {}
  /\ foreignKeys = TRUE
  /\ InitAside

NextFrame ==
  \/ DeliveryPOST(EmptyPost)
  \/ \E req \in FramePutRequests : DeliveryPUT(req[1], req[2])
  \/ Tick
  \/ \E q \in {<<Text(1), Null>>, <<Text(9), Null>>} : TrackingGET(q[1], q[2])
  \/ \E loc \in FrameLocations :
       EstimatePOST([pharmacyId |-> Text(1), deliveryLatitude |-> loc[1],
                     deliveryLongitude |-> loc[2]])
  \/ \E loc \in FrameLocations :
       NearbyGET([latitude |-> loc[1], longitude |-> loc[2], radius |-> Absent,
                  limit |-> Absent, isActive |-> "absent"])
  \/ \E loc \in FrameLocations :
       StockGET([medicineId |-> Text(1), latitude |-> loc[1], longitude |-> loc[2],
                 radius |-> Absent, limit |-> Absent])

SpecFrame == InitFrame /\ [][NextFrame]_vars

DistanceOps == {"estimatePOST", "nearbyGET", "stockGET", "trackingGET"}

\* C10: a step in which the delivery-estimate POST, the nearby-pharmacy
\* GET, the stock-check GET or the delivery-tracking GET answers leaves
\* every table as it was, whatever writes happened before or happen after.
C10_DistanceHandlersReadOnly ==
  [][(resp'.op \in DistanceOps /\ (resp' # resp \/ probe' # probe)) =>
       tables' = tables]_vars

\* a tracking GET has answered for a delivery that a POST created and a
\* PUT moved, and the row is as the PUT left it
C10_Witness ==
  /\ resp.op = "trackingGET" /\ resp.status = 200
  /\ resp.body.deliveryStatus = "picked_up"
  /\ delivery # {} /\ TheDelivery.status = "picked_up"
  /\ TheDelivery.currentLatitude = Some(MidwayLat)
  /\ TheDelivery.deliveredAt = Null

----------------------------------------------------------------------------
(* The four calculateDistance call sites as functions of two points.  The  *)
(* value is the JavaScript number the call site works with after its       *)
(* rounding, in cm: NaN when a overshoots 1.                               *)

Sites == {"estimate", "nearby", "stock", "tracking"}

DistanceAt(site, lat1, lon1, lat2, lon2) ==
  IF Overshoots(lat1, lon1, lat2, lon2) THEN NaN
  ELSE CASE site = "estimate" -> Num(calculateDistanceE(lat1, lon1, lat2, lon2) * 1000)
         [] site = "nearby" -> Num(calculateDistanceN(lat1, lon1, lat2, lon2) * 1000)
         [] site = "stock" -> Num(ToFixed2(calculateDistanceS(lat1, lon1, lat2, lon2)) * 1000)
         [] site = "tracking" -> Num(calculateDistanceT(lat1, lon1, lat2, lon2) * 10000)

\* the estimate and the tracking handler put the value in the response as
\* it is; the nearby and the stock handler first filter on distance <=
\* radius, which is false for NaN
ReachesResponse(site, value) == site \in {"estimate", "tracking"} \/ value.k = "num"

\* one call of calculateDistance at a call site, and the call with the two
\* points exchanged
CalculateDistance(site, from, to) ==
  /\ calc' = [site |-> site, from |-> from, to |-> to,
               value |-> DistanceAt(site, from[1], from[2], to[1], to[2]),
               back |-> DistanceAt(site, to[1], to[2], from[1], from[2]),
               reaches |-> ReachesResponse(site, DistanceAt(site, from[1], from[2], to[1], to[2]))]
  /\ UNCHANGED <<tables, now, resp, probe, pending, foreignKeys, aside>>

----------------------------------------------------------------------------
(* The distance specification: calculateDistance applied at each call site *)
(* to pairs of points in range.                                            *)

\* points in range: on the equator, the poles with the extreme longitudes,
\* the corners of the range, the pharmacy and a destination, and two pairs
\* of antipodal points
Points ==
  { <<0, 0>>, <<0, 90 * Deg>>, <<0, 180 * Deg>>, <<0, -180 * Deg>>,
    <<90 * Deg, 180 * Deg>>, <<-90 * Deg, -180 * Deg>>, <<90 * Deg, MeridianLon>>,
    <<PharmacyLat, MeridianLon>>, <<FarDestLat, MeridianLon>>, <<-BaseLat, MeridianLon>>,
    <<12 * Deg, MeridianLon>>, <<-12 * Deg, MeridianLon - 180 * Deg>>,
    <<45 * Deg, MeridianLon>>, <<-45 * Deg, MeridianLon - 180 * Deg>> }

InRange(p) ==
  /\ p[1] >= -90 * Deg /\ p[1] <= 90 * Deg
  /\ p[2] >= -180 * Deg /\ p[2] <= 180 * Deg

\* the pairs of points whose great-circle arc the model knows
PointPairs ==
  {pq \in Points \X Points :
     LET p == pq[1]
         q == pq[2]
     IN  \/ p[2] = q[2]
         \/ p[1] = 0 /\ q[1] = 0
         \/ Abs(p[1]) = 90 * Deg \/ Abs(q[1]) = 90 * Deg
         \/ Antipodal(p[1], p[2], q[1], q[2])}

InitDistance ==
  /\ users = {}
  /\ pharmacies = {}
  /\ orders = {}
  /\ delivery = {}
  /\ medicines = {}
  /\ inventory = {}
  /\ now = 0
  /\ resp = NoReply
  /\ probe = NoProbe
  /\ calc = NoCall
  /\ pending = {}
  /\ foreignKeys = TRUE
  /\ InitAside

NextDistance ==
  \E site \in Sites : \E pq \in PointPairs : CalculateDistance(site, pq[1], pq[2])

SpecDistance == InitDistance /\ [][NextDistance]_vars

----------------------------------------------------------------------------
(* Properties of calculateDistance at its four call sites.                 *)

Called == calc.site # "none"

\* C11: at each of the four call sites, the distance from a point in range
\* to itself is 0.
C11_DistanceToSelfIsZero ==
  (Called /\ calc.from = calc.to /\ InRange(calc.from)) => calc.value = Num(0)

\* the stock-check call site has returned 0 for the corner (-90, -180)
C11_Witness ==
  /\ calc.site = "stock"
  /\ calc.from = <<-90 * Deg, -180 * Deg>> /\ calc.to = <<-90 * Deg, -180 * Deg>>
  /\ calc.value = Num(0)

RoundingUnit(site) == IF site = "tracking" THEN 10000 ELSE 1000

\* C13: every distance that reaches a response is a non-negative number
\* and a whole multiple of 0.01 km at the estimate, nearby and stock-check
\* call sites, of 0.1 km at the tracking call site.
C13_DistanceRounded ==
  (Called /\ calc.reaches) =>
    /\ calc.value.k = "num"
    /\ calc.value.v >= 0
    /\ calc.value.v % RoundingUnit(calc.site) = 0

\* const R = 6371, the Earth radius in km
EarthRadiusKm == 6371

\* a quarter of the circumference, R * PI / 2, in cm (PI / 2 = 1.570796327)
QuarterCircumferenceCm == EarthRadiusKm * 157079 + MulDiv(EarthRadiusKm, 6327, 10000)

\* C14: the distance between (0, 0) and (0, 90) is the quarter
\* circumference, 10007.54 km, to within half a unit of the call site's
\* rounding: 10007.54 at two decimals, 10007.5 at one.
C14_QuarterCircumference ==
  (Called /\ calc.from = <<0, 0>> /\ calc.to = <<0, 90 * Deg>>) =>
    /\ calc.value.k = "num"
    /\ 2 * Abs(calc.value.v - QuarterCircumferenceCm) <= RoundingUnit(calc.site)

\* the estimate call site has returned 10007.54 km for (0, 0) and (0, 90)
C14_Witness ==
  /\ calc.site = "estimate"
  /\ calc.from = <<0, 0>> /\ calc.to = <<0, 90 * Deg>>
  /\ calc.value = Num(1000754000)

----------------------------------------------------------------------------
(* The happy-path specification: one order for the far destination, whose  *)
(* delivery is created as 'assigned' and advanced by PUT one status at a   *)
(* time, while time passes and the courier reports positions that come no  *)
(* farther from the destination.                                           *)

\* the statuses in the order of the array VALID_STATUSES, without 'failed'
StatusSequence == <<"assigned", "accepted", "picked_up", "on_the_way", "delivered">>

\* the place of a status in the sequence (0 for 'failed')
Rank(status) ==
  IF \E i \in 1..Len(StatusSequence) : StatusSequence[i] = status
  THEN CHOOSE i \in 1..Len(StatusSequence) : StatusSequence[i] = status
  ELSE 0

\* the positions a courier on the way reports: at the pharmacy, 0.3 km
\* from the destination, at the destination
HappyPositions == {PharmacyLat, MidwayLat, FarDestLat}

\* a report of latitude lat is no farther from the destination than the
\* position stored, if one is stored
NotFarther(lat) ==
  IF TheDelivery.currentLatitude = Null \/ TheDelivery.currentLongitude = Null THEN TRUE
  ELSE HaversineCm(lat, MeridianLon, FarDestLat, MeridianLon)
         <= HaversineCm(TheDelivery.currentLatitude[1], TheDelivery.currentLongitude[1],
                        FarDestLat, MeridianLon)

InitHappy ==
  /\ users = {[id |-> 1]}
  /\ pharmacies = {[id |-> 1, latitude |-> PharmacyLat, longitude |-> MeridianLon,
                    isActive |-> TRUE]}
  /\ orders = {[id |-> 1, pharmacyId |-> 1, orderNumber |-> "ORD-1",
                deliveryLatitude |-> Some(FarDestLat), deliveryLongitude |-> Some(MeridianLon)]}
  /\ delivery = {}
  /\ medicines = {}
  /\ inventory = {}
  /\ now = 0
  /\ resp = NoReply
  /\ probe = NoProbe
  /\ calc = NoCall
  /\ pending = {}
  /\ foreignKeys = TRUE
  /\ InitAside

NextHappy ==
  \/ DeliveryPOST(EmptyPost)
  \/ \E st \in VALID_STATUSES :
       /\ delivery # {}
       /\ Rank(st) = Rank(TheDelivery.status) + 1
       /\ DeliveryPUT(Text(1), [EmptyPut EXCEPT !.status = Def(Some(st))])
  \/ \E lat \in HappyPositions :
       /\ delivery # {}
       /\ NotFarther(lat)
       /\ DeliveryPUT(Text(1), [EmptyPut EXCEPT !.currentLatitude = Def(Some(lat)),
                                                !.currentLongitude = Def(Some(MeridianLon))])
  \/ Tick
  \/ TrackingGET(Text(1), Null)

SpecHappy == InitHappy /\ [][NextHappy]_vars

\* the response a tracking GET for the order gives in the current state
TrackingNow == TrackingResponse(Text(1), Null)

\* C15: along a happy-path run the progressPercentage that tracking GETs
\* return never decreases: no step of the run takes the delivery from a
\* state in which a GET returns a percentage to a state in which a GET
\* returns a smaller one.
C15_HappyPathMonotonic ==
  [][(TrackingNow.status = 200 /\ TrackingNow'.status = 200) =>
       LET before == TrackingNow.body.progressPercentage
           after == TrackingNow'.body.progressPercentage
       IN  before # Null /\ after # Null /\ after[1] >= before[1]]_vars

----------------------------------------------------------------------------
(* The order of the delivery statuses.                                     *)

\* a step in which a delivery PUT has rewritten the delivery record
DeliveryPutStep ==
  /\ resp'.op = "deliveryPUT" /\ resp'.status = 200
  /\ delivery # {} /\ delivery' # {}

\* C16: no delivery PUT moves a record from a status of the sequence
\* assigned, accepted, picked_up, on_the_way, delivered to a status that
\* comes earlier in it.
C16_StatusNeverGoesBack ==
  [][(DeliveryPutStep /\ Rank(TheDelivery.status) > 0 /\ Rank(TheDelivery'.status) > 0) =>
       Rank(TheDelivery'.status) >= Rank(TheDelivery.status)]_vars

----------------------------------------------------------------------------
(* Requests in flight.  A handler that awaits the database between a check *)
(* and a write is a sequence of steps, one per query; other requests run   *)
(* between them.  pending holds a record per request: its number, its      *)
(* handler, its argument (body or id), the step it is at and, once it is   *)
(* answered, its response.                                                 *)

\* the number of requests of one run
MaxRequests == 3

Request(op, arg, pc, reply) ==
  [rid |-> Cardinality(pending) + 1, op |-> op, arg |-> arg, pc |-> pc, reply |-> reply]

\* a request arrives and runs up to its first await: it is answered at
\* once (reply # NoReply) or goes on at step pc
Arrive(op, arg, pc, reply) ==
  /\ Cardinality(pending) < MaxRequests
  /\ pending' = pending \cup {Request(op, arg, IF reply = NoReply THEN pc ELSE "done", reply)}
  /\ resp' = IF reply = NoReply THEN resp ELSE reply

\* request r goes on to step pc
Advance(r, pc) ==
  /\ pending' = (pending \ {r}) \cup {[r EXCEPT !.pc = pc]}
  /\ UNCHANGED resp

\* request r is answered
Finish(r, reply) ==
  /\ pending' = (pending \ {r}) \cup {[r EXCEPT !.pc = "done", !.reply = reply]}
  /\ resp' = reply

\* the catch block: 500 'Internal server error: ...'
InternalError(op) == Reply(op, 500, "", NoBody)

\* the id an autoincrement column gives to the next row
NextId(rows) == IF rows = {} THEN 1 ELSE (CHOOSE r \in rows : \A q \in rows : q.id <= r.id).id + 1

----------------------------------------------------------------------------
(* Orders POST and PUT.  A text of a body is Null or a record [core, pad]: *)
(* the text without surrounding blanks, and whether it has any.            *)

VALID_STATUSES_ORDERS ==
  {"pending", "confirmed", "preparing", "ready", "picked_up", "out_for_delivery", "delivered",
   "cancelled"}

Padded(core) == [core |-> core, pad |-> TRUE]

Plain(core) == [core |-> core, pad |-> FALSE]

\* String.prototype.trim
Trim(text) == text.core

\* truthiness of a status: undefined, null and "" are falsy
TruthyStatus(status) == status # Null /\ status[1] # ""

\* a coordinate of a body is left out or a request value; parseFloat of
\* null is NaN
OrderCoordinateValid(field, limit) ==
  \/ ~field.def
  \/ /\ ~IsNaN(ParseFloat(field.val))
     /\ ParseFloat(field.val).v >= -limit /\ ParseFloat(field.val).v <= limit

\* the checks of POST before its first query ("" when all pass).  The
\* bodies of the model carry no deliveryFee and no estimatedDeliveryTime.
OrdersPOSTValidation(body) ==
  IF ~Present(body.userId) THEN "MISSING_USER_ID"
  ELSE IF ~Present(body.pharmacyId) THEN "MISSING_PHARMACY_ID"
  ELSE IF body.orderNumber = Null THEN "MISSING_ORDER_NUMBER"
  ELSE IF ~TruthyStatus(body.status) THEN "MISSING_STATUS"
  ELSE IF body.totalAmount.s = "absent" THEN "MISSING_TOTAL_AMOUNT"
  ELSE IF body.deliveryAddress = Null THEN "MISSING_DELIVERY_ADDRESS"
  ELSE IF IsNaN(ParseInt(body.userId)) THEN "INVALID_USER_ID"
  ELSE IF IsNaN(ParseInt(body.pharmacyId)) THEN "INVALID_PHARMACY_ID"
  ELSE IF body.status[1] \notin VALID_STATUSES_ORDERS THEN "INVALID_STATUS"
  ELSE IF IsNaN(ParseFloat(body.totalAmount)) \/ ParseFloat(body.totalAmount).v < 0
  THEN "INVALID_TOTAL_AMOUNT"
  ELSE IF ~OrderCoordinateValid(body.deliveryLatitude, 90 * Deg) THEN "INVALID_LATITUDE"
  ELSE IF ~OrderCoordinateValid(body.deliveryLongitude, 180 * Deg) THEN "INVALID_LONGITUDE"
  ELSE ""

\* the row POST inserts
OrderInsertData(body) ==
  [id |-> NextId(orders),
   userId |-> ParseInt(body.userId).v,
   pharmacyId |-> ParseInt(body.pharmacyId).v,
   orderNumber |-> Trim(body.orderNumber),
   status |-> body.status[1],
   deliveryLatitude |-> IF body.deliveryLatitude.def
                        THEN Some(ParseFloat(body.deliveryLatitude.val).v) ELSE Null,
   deliveryLongitude |-> IF body.deliveryLongitude.def
                         THEN Some(ParseFloat(body.deliveryLongitude.val).v) ELSE Null]

\* POST up to the answer of its first query: the checks, then the user
OrdersPOSTBegin(body) ==
  /\ LET code == OrdersPOSTValidation(body)
         userExists == {u \in users : u.id = ParseInt(body.userId).v}
     IN  Arrive("ordersPOST", body, "pharmacy",
                IF code # "" THEN Reply("ordersPOST", 400, code, NoBody)
                ELSE IF userExists = {} THEN Reply("ordersPOST", 400, "USER_NOT_FOUND", NoBody)
                ELSE NoReply)
  /\ UNCHANGED <<tables, now, probe, calc, foreignKeys, aside>>

\* the query for the pharmacy
OrdersPOSTPharmacy(r) ==
  /\ r.op = "ordersPOST" /\ r.pc = "pharmacy"
  /\ IF {ph \in pharmacies : ph.id = ParseInt(r.arg.pharmacyId).v} = {}
     THEN Finish(r, Reply("ordersPOST", 400, "PHARMACY_NOT_FOUND", NoBody))
     ELSE Advance(r, "duplicate")
  /\ UNCHANGED <<tables, now, probe, calc, foreignKeys, aside>>

\* the query for an order with the same trimmed orderNumber
OrdersPOSTDuplicate(r) ==
  /\ r.op = "ordersPOST" /\ r.pc = "duplicate"
  /\ IF {o \in orders : o.orderNumber = Trim(r.arg.orderNumber)} # {}
     THEN Finish(r, Reply("ordersPOST", 400, "DUPLICATE_ORDER_NUMBER", NoBody))
     ELSE Advance(r, "insert")
  /\ UNCHANGED <<tables, now, probe, calc, foreignKeys, aside>>

\* the constraints the database checks on an insert into orders: the
\* unique index on order_number and, when enforced, the two foreign keys
OrderInsertAllowed(row) ==
  /\ {o \in orders : o.orderNumber = row.orderNumber} = {}
  /\ foreignKeys =>
       /\ {u \in users : u.id = row.userId} # {}
       /\ {ph \in pharmacies : ph.id = row.pharmacyId} # {}

\* the insert; a constraint that fails throws into the catch block
OrdersPOSTInsert(r) ==
  /\ r.op = "ordersPOST" /\ r.pc = "insert"
  /\ LET insertData == OrderInsertData(r.arg)
     IN  IF OrderInsertAllowed(insertData)
         THEN /\ orders' = orders \cup {insertData}
              /\ Finish(r, Reply("ordersPOST", 201, "", insertData))
         ELSE /\ orders' = orders
              /\ Finish(r, InternalError("ordersPOST"))
  /\ UNCHANGED <<users, pharmacies, delivery, medicines, inventory, now, probe, calc, foreignKeys,
                 aside>>

\* PUT: id is the query parameter; body.status is left out, null or a
\* text, the coordinates are left out or request values.  The model has no
\* request that deletes an order, so the row PUT selects is the row it
\* updates and the handler is one step.
OrdersPUTResult(id, body) ==
  LET existingOrder == {o \in orders : o.id = ParseInt(id).v}
      fail(status, code) == [reply |-> Reply("ordersPUT", status, code, NoBody), rows |-> orders]
  IN
  IF ~Present(id) \/ IsNaN(ParseInt(id)) THEN fail(400, "INVALID_ID")
  ELSE IF existingOrder = {} THEN fail(404, "ORDER_NOT_FOUND")
  ELSE IF TruthyStatus(body.status.val) /\ body.status.val[1] \notin VALID_STATUSES_ORDERS
  THEN fail(400, "INVALID_STATUS")
  ELSE IF ~OrderCoordinateValid(body.deliveryLatitude, 90 * Deg) THEN fail(400, "INVALID_LATITUDE")
  ELSE IF ~OrderCoordinateValid(body.deliveryLongitude, 180 * Deg)
  THEN fail(400, "INVALID_LONGITUDE")
  ELSE IF body.status.def /\ body.status.val = Null
  THEN [reply |-> InternalError("ordersPUT"), rows |-> orders]
  ELSE
    LET existing == Row(existingOrder)
        updated ==
          [existing EXCEPT
             !.status = IF body.status.def THEN body.status.val[1] ELSE @,
             !.deliveryLatitude = IF body.deliveryLatitude.def
                                  THEN Some(ParseFloat(body.deliveryLatitude.val).v) ELSE @,
             !.deliveryLongitude = IF body.deliveryLongitude.def
                                   THEN Some(ParseFloat(body.deliveryLongitude.val).v) ELSE @]
    IN  [reply |-> Reply("ordersPUT", 200, "", updated),
         rows |-> (orders \ existingOrder) \cup {updated}]

OrdersPUT(id, body) ==
  /\ LET result == OrdersPUTResult(id, body)
     IN  resp' = result.reply /\ orders' = result.rows
  /\ UNCHANGED <<users, pharmacies, delivery, medicines, inventory, now, probe, others, aside>>

----------------------------------------------------------------------------
(* Users DELETE and pharmacies DELETE: a query for the row, then the       *)
(* delete.                                                                 *)

UsersDELETEBegin(id) ==
  /\ Arrive("usersDELETE", id, "delete",
            IF ~Present(id) \/ IsNaN(ParseInt(id))
            THEN Reply("usersDELETE", 400, "INVALID_ID", NoBody)
            ELSE IF {u \in users : u.id = ParseInt(id).v} = {}
            THEN Reply("usersDELETE", 404, "USER_NOT_FOUND", NoBody)
            ELSE NoReply)
  /\ UNCHANGED <<tables, now, probe, calc, foreignKeys, aside>>

\* with the foreign keys enforced, a user that an order or a delivery
\* refers to cannot be deleted
UsersDELETEDelete(r) ==
  /\ r.op = "usersDELETE" /\ r.pc = "delete"
  /\ LET id == ParseInt(r.arg).v
         referenced == \/ {o \in orders : o.userId = id} # {}
                       \/ {d \in delivery : d.deliveryPersonId = Some(id)} # {}
     IN  IF foreignKeys /\ referenced
         THEN /\ users' = users
              /\ Finish(r, InternalError("usersDELETE"))
         ELSE /\ users' = {u \in users : u.id # id}
              /\ Finish(r, Reply("usersDELETE", 200, "", NoBody))
  /\ UNCHANGED <<pharmacies, orders, delivery, medicines, inventory, now, probe, calc,
                 foreignKeys, aside>>

PharmaciesDELETEBegin(id) ==
  /\ Arrive("pharmaciesDELETE", id, "delete",
            IF ~Present(id) \/ IsNaN(ParseInt(id))
            THEN Reply("pharmaciesDELETE", 400, "INVALID_ID", NoBody)
            ELSE IF {ph \in pharmacies : ph.id = ParseInt(id).v} = {}
            THEN Reply("pharmaciesDELETE", 404, "PHARMACY_NOT_FOUND", NoBody)
            ELSE NoReply)
  /\ UNCHANGED <<tables, now, probe, calc, foreignKeys, aside>>

PharmaciesDELETEDelete(r) ==
  /\ r.op = "pharmaciesDELETE" /\ r.pc = "delete"
  /\ LET id == ParseInt(r.arg).v
         referenced == \/ {o \in orders : o.pharmacyId = id} # {}
                       \/ {i \in inventory : i.pharmacyId = id} # {}
     IN  IF foreignKeys /\ referenced
         THEN /\ pharmacies' = pharmacies
              /\ Finish(r, InternalError("pharmaciesDELETE"))
         ELSE /\ pharmacies' = {ph \in pharmacies : ph.id # id}
              /\ Finish(r, Reply("pharmaciesDELETE", 200, "", NoBody))
  /\ UNCHANGED <<users, orders, delivery, medicines, inventory, now, probe, calc, foreignKeys,
                 aside>>

----------------------------------------------------------------------------
(* The orders specification: two users, two pharmacies and one stored      *)
(* order; orders POSTs, users DELETEs and pharmacies DELETEs run           *)
(* concurrently.                                                           *)

OrderBody(userId, orderNumber, status) ==
  [userId |-> userId, pharmacyId |-> Text(1), orderNumber |-> orderNumber, status |-> status,
   totalAmount |-> Text(100), deliveryAddress |-> Some("address"),
   deliveryLatitude |-> Undef, deliveryLongitude |-> Undef]

\* valid bodies with the same trimmed orderNumber, a body with the stored
\* order's number, and bodies that fail a check
OrderPostBodies ==
  { OrderBody(Text(1), Plain("ORD-7"), Some("pending")),
    OrderBody(Text(1), Padded("ORD-7"), Some("confirmed")),
    OrderBody(Text(1), Plain("ORD-1"), Some("pending")),
    OrderBody(Text(1), Plain("ORD-8"), Some("bogus")),
    OrderBody(Text(1), Plain("ORD-8"), Some("")),
    OrderBody(Text(9), Plain("ORD-8"), Some("pending")) }

OrderPutBody(status) ==
  [status |-> status, deliveryLatitude |-> Undef, deliveryLongitude |-> Undef]

\* the PUT requests of the model: on the stored order, on the order a POST
\* creates, and requests that fail a check
OrderPutRequests ==
  {<<Text(1), OrderPutBody(st)>> :
     st \in {Def(Null), Def(Some("")), Def(Some("delivered")), Def(Some("bogus"))}}
  \cup {<<Text(2), OrderPutBody(Def(Some("cancelled")))>>,
        <<Text(1), [OrderPutBody(Undef) EXCEPT !.deliveryLatitude = Def(Text(91 * Deg))]>>,
        <<Junk, OrderPutBody(Undef)>>}

\* the POST bodies of the order-status specification
StatusPostBodies ==
  { OrderBody(Text(1), Plain("ORD-7"), Some("pending")),
    OrderBody(Text(1), Plain("ORD-8"), Some("bogus")),
    OrderBody(Text(1), Plain("ORD-8"), Some("")) }

InitOrders ==
  /\ users = {[id |-> 1], [id |-> 2]}
  /\ pharmacies = {[id |-> 1, latitude |-> PharmacyLat, longitude |-> MeridianLon,
                    isActive |-> TRUE],
                   [id |-> 2, latitude |-> PharmacyLat + 450, longitude |-> MeridianLon,
                    isActive |-> TRUE]}
  /\ orders = {[id |-> 1, userId |-> 2, pharmacyId |-> 2, orderNumber |-> "ORD-1",
                status |-> "pending", deliveryLatitude |-> Null, deliveryLongitude |-> Null]}
  /\ delivery = {}
  /\ medicines = {}
  /\ inventory = {}
  /\ now = 0
  /\ resp = NoReply
  /\ probe = NoProbe
  /\ calc = NoCall
  /\ pending = {}
  /\ foreignKeys \in BOOLEAN
  /\ InitAside

NextOrders ==
  \/ \E body \in OrderPostBodies : OrdersPOSTBegin(body)
  \/ \E r \in pending : OrdersPOSTPharmacy(r)
  \/ \E r \in pending : OrdersPOSTDuplicate(r)
  \/ \E r \in pending : OrdersPOSTInsert(r)
  \/ \E id \in {Text(1), Text(2), Junk} : UsersDELETEBegin(id)
  \/ \E r \in pending : UsersDELETEDelete(r)
  \/ \E id \in {Text(1), Text(9)} : PharmaciesDELETEBegin(id)
  \/ \E r \in pending : PharmaciesDELETEDelete(r)

SpecOrders == InitOrders /\ [][NextOrders]_vars


----------------------------------------------------------------------------
(* The order-status specification: orders POSTs and orders PUTs on the     *)
(* stored order and on the orders the POSTs create.                        *)

NextOrderStatus ==
  \/ \E body \in StatusPostBodies : OrdersPOSTBegin(body)
  \/ \E r \in pending : OrdersPOSTPharmacy(r)
  \/ \E r \in pending : OrdersPOSTDuplicate(r)
  \/ \E r \in pending : OrdersPOSTInsert(r)
  \/ \E req \in OrderPutRequests : OrdersPUT(req[1], req[2])

SpecOrderStatus == InitOrders /\ [][NextOrderStatus]_vars

----------------------------------------------------------------------------
(* Properties of the orders handlers.                                      *)

\* the POST requests that are valid but for their orderNumber, for a user
\* and a pharmacy that exist, with the trimmed orderNumber number
ValidPosts(number) ==
  {r \in pending :
     /\ r.op = "ordersPOST"
     /\ OrdersPOSTValidation(r.arg) = ""
     /\ Trim(r.arg.orderNumber) = number
     /\ {u \in users : u.id = ParseInt(r.arg.userId).v} # {}
     /\ {ph \in pharmacies : ph.id = ParseInt(r.arg.pharmacyId).v} # {}}

Answered(requests, status, code) ==
  {r \in requests : r.pc = "done" /\ r.reply.status = status /\ r.reply.code = code}

\* C17: of the concurrent valid POSTs that carry the same trimmed
\* orderNumber, not stored before, one is answered 201 and every other one
\* 400 DUPLICATE_ORDER_NUMBER, however their steps interleave.
C17_OneCreatedOthersDuplicate ==
  LET posts == ValidPosts("ORD-7")
      answered == {r \in posts : r.pc = "done"}
      created == Answered(posts, 201, "")
      duplicate == Answered(posts, 400, "DUPLICATE_ORDER_NUMBER")
  IN  /\ answered = created \cup duplicate
      /\ Cardinality(created) <= 1
      /\ (posts # {} /\ answered = posts) => Cardinality(created) = 1

C20_StoredStatusValid ==
  \A o \in orders : o.status \in VALID_STATUSES_ORDERS

----------------------------------------------------------------------------
(* Delivery POST as a request in flight: the checks with their queries,    *)
(* then the insert.  The three queries of the checks are one step: the     *)
(* model deletes no order and no user while a delivery POST runs, so only  *)
(* the query on the delivery table can be overtaken, by an insert.         *)

DeliveryPOSTBegin(body) ==
  /\ LET result == DeliveryPOSTResult(body)
     IN  Arrive("deliveryPOST", body, "insert",
                IF result.reply.status = 201 THEN NoReply ELSE result.reply)
  /\ UNCHANGED <<tables, now, probe, calc, foreignKeys, aside>>

\* an insert that ignores the unique index on order_id
DeliveryInsertAllowed_NoIndex(row) ==
  foreignKeys =>
    /\ {o \in orders : o.id = row.orderId} # {}
    /\ row.deliveryPersonId # Null => {u \in users : Some(u.id) = row.deliveryPersonId} # {}

\* the constraints the database checks on an insert into delivery: the
\* unique index on order_id and, when enforced, the two foreign keys
DeliveryInsertAllowed(row) ==
  /\ {d \in delivery : d.orderId = row.orderId} = {}
  /\ foreignKeys =>
       /\ {o \in orders : o.id = row.orderId} # {}
       /\ row.deliveryPersonId # Null => {u \in users : Some(u.id) = row.deliveryPersonId} # {}

DeliveryPOSTInsert(r) ==
  /\ r.op = "deliveryPOST" /\ r.pc = "insert"
  /\ LET insertData == DeliveryInsertData(r.arg)
     IN  IF DeliveryInsertAllowed(insertData)
         THEN /\ delivery' = delivery \cup {insertData}
              /\ Finish(r, Reply("deliveryPOST", 201, "", insertData))
         ELSE /\ delivery' = delivery
              /\ Finish(r, InternalError("deliveryPOST"))
  /\ UNCHANGED <<users, pharmacies, orders, medicines, inventory, now, probe, calc, foreignKeys,
                 aside>>

----------------------------------------------------------------------------
(* The deliveries specification: two orders, and delivery POSTs that run   *)
(* concurrently.                                                           *)

\* POST bodies for the two orders and for an order that does not exist,
\* with and without a delivery person and a position
RacePostBodies ==
  {[EmptyPost EXCEPT !.orderId = o, !.status = st] :
     o \in {Text(1), Text(2), Text(9)}, st \in {Some("assigned"), Some("picked_up")}}
  \cup {[EmptyPost EXCEPT !.deliveryPersonId = Text(1),
                          !.currentLatitude = Def(Some(MidwayLat)),
                          !.currentLongitude = Def(Some(MeridianLon))],
        [EmptyPost EXCEPT !.status = Some("bogus")]}

InitDeliveries ==
  /\ users = {[id |-> 1]}
  /\ pharmacies = {[id |-> 1, latitude |-> PharmacyLat, longitude |-> MeridianLon,
                    isActive |-> TRUE]}
  /\ orders = {[id |-> 1, userId |-> 1, pharmacyId |-> 1, orderNumber |-> "ORD-1",
                status |-> "ready", deliveryLatitude |-> Some(FarDestLat),
                deliveryLongitude |-> Some(MeridianLon)],
               [id |-> 2, userId |-> 1, pharmacyId |-> 1, orderNumber |-> "ORD-2",
                status |-> "ready", deliveryLatitude |-> Null, deliveryLongitude |-> Null]}
  /\ delivery = {}
  /\ medicines = {}
  /\ inventory = {}
  /\ now = 0
  /\ resp = NoReply
  /\ probe = NoProbe
  /\ calc = NoCall
  /\ pending = {}
  /\ foreignKeys \in BOOLEAN
  /\ InitAside

NextDeliveries ==
  \/ \E body \in RacePostBodies : DeliveryPOSTBegin(body)
  \/ \E r \in pending : DeliveryPOSTInsert(r)

SpecDeliveries == InitDeliveries /\ [][NextDeliveries]_vars

\* C18: in every reachable state, however the delivery POSTs interleave,
\* each order has at most one delivery record.
C18_OneDeliveryPerOrder ==
  \A o \in orders : Cardinality({d \in delivery : d.orderId = o.id}) <= 1

\* two POSTs for order 1 both passed the check for an existing delivery;
\* the insert of one was answered 201, the insert of the other failed on
\* the unique index, and the order has one delivery record
C18_Witness ==
  /\ \E r1 \in pending : \E r2 \in pending :
       /\ r1.op = "deliveryPOST" /\ r1.arg.orderId = Text(1) /\ r1.reply.status = 201
       /\ r2.op = "deliveryPOST" /\ r2.arg.orderId = Text(1) /\ r2.reply.status = 500
  /\ Cardinality({d \in delivery : d.orderId = 1}) = 1

----------------------------------------------------------------------------
(* The viewers route: an in-memory Map from viewer ID to the time it was   *)
(* last seen.  Times are milliseconds of Date.now().                       *)

VIEWER_TIMEOUT == 30000

\* setInterval(updatePresence, 10000) of LiveViewersCounter
HeartbeatMs == 10000

\* how late after the interval a heartbeat POST may reach the server
Jitter == 1

\* the clock runs over 0..MaxClock
MaxClock == 40003

\* how many request bodies with an object as viewerId are parsed
MaxObjects == 2

\* the viewerId of a JSON body: left out, a string, or an object literal
ViewerId(kind, val) == [kind |-> kind, val |-> val]

IdUndefined == ViewerId("undefined", "")

IdString(text) == ViewerId("string", text)

IdObject == ViewerId("object", "{}")

\* !viewerId is false: undefined and "" are falsy, every object is truthy
TruthyId(viewerId) == viewerId.kind = "object" \/ (viewerId.kind = "string" /\ viewerId.val # "")

\* the key of the Map for a parsed viewerId: a string is a key by its value,
\* an object by its identity, and request.json() makes a new object for
\* every request
MapKey(viewerId) ==
  [kind |-> viewerId.kind, val |-> viewerId.val,
   ref |-> IF viewerId.kind = "object" THEN allocated + 1 ELSE 0]

\* Map.prototype.set
MapSet(map, key, value) ==
  [k \in DOMAIN map \cup {key} |-> IF k = key THEN value ELSE map[k]]

\* a cleanup that drops a viewer one heartbeat after it was last seen
cleanupExpiredViewers_Heartbeat(map, time) ==
  [k \in {q \in DOMAIN map : ~(time - map[q] > HeartbeatMs)} |-> map[k]]

cleanupExpiredViewers(map, time) ==
  [k \in {q \in DOMAIN map : ~(time - map[q] > VIEWER_TIMEOUT)} |-> map[k]]

\* the handler is synchronous after request.json(): Date.now() is the same
\* in set and in the cleanup
ViewersPOSTHandled(viewerId) ==
  /\ viewerId.kind = "object" => allocated < MaxObjects
  /\ IF ~TruthyId(viewerId)
     THEN /\ resp' = Reply("viewersPOST", 400, "", NoBody)
          /\ UNCHANGED <<activeViewers, allocated, lastPost, client, lists>>
     ELSE LET cleaned == cleanupExpiredViewers(MapSet(activeViewers, MapKey(viewerId), clock),
                                               clock)
          IN  /\ activeViewers' = cleaned
              /\ allocated' = IF viewerId.kind = "object" THEN allocated + 1 ELSE allocated
              /\ lastPost' = MapSet(lastPost, viewerId, clock)
              /\ resp' = Reply("viewersPOST", 200, "",
                               [success |-> TRUE, activeViewers |-> Cardinality(DOMAIN cleaned)])
  /\ answeredAt' = clock

\* a POST from any client
ViewersPOST(viewerId) ==
  /\ ViewersPOSTHandled(viewerId)
  /\ UNCHANGED <<tables, now, probe, others, payments, clock, heartbeat, client, lists>>

ViewersGET ==
  /\ LET cleaned == cleanupExpiredViewers(activeViewers, clock)
     IN  /\ activeViewers' = cleaned
         /\ resp' = Reply("viewersGET", 200, "", [activeViewers |-> Cardinality(DOMAIN cleaned)])
  /\ answeredAt' = clock
  /\ UNCHANGED <<tables, now, probe, others, payments, clock, allocated, lastPost, heartbeat,
                 client, lists>>

\* the id that LiveViewersCounter keeps in localStorage
OwnId == IdString("viewer_a")

\* the component mounts: the initial updatePresence()
Mount ==
  /\ heartbeat = Null
  /\ ViewersPOSTHandled(OwnId)
  /\ heartbeat' = Some(clock)
  /\ UNCHANGED <<tables, now, probe, others, payments, clock, client, lists>>

\* the interval fires: updatePresence() again
Heartbeat ==
  /\ heartbeat # Null
  /\ clock - heartbeat[1] >= HeartbeatMs
  /\ ViewersPOSTHandled(OwnId)
  /\ heartbeat' = Some(clock)
  /\ UNCHANGED <<tables, now, probe, others, payments, clock, client, lists>>

\* the component unmounts: clearInterval
Unmount ==
  /\ heartbeat # Null
  /\ heartbeat' = Null
  /\ UNCHANGED <<tables, now, resp, probe, others, payments, activeViewers, clock, allocated,
                 lastPost, answeredAt, client, lists>>

\* time passes; while the component is mounted its next POST reaches the
\* server at most Jitter after the interval
Elapse(ms) ==
  /\ clock + ms <= MaxClock
  /\ heartbeat # Null => clock + ms - heartbeat[1] <= HeartbeatMs + Jitter
  /\ clock' = clock + ms
  /\ UNCHANGED <<tables, now, resp, probe, others, payments, activeViewers, allocated, lastPost,
                 answeredAt, heartbeat, client, lists>>

----------------------------------------------------------------------------
(* The viewers specification: one browser with the component, and POSTs    *)
(* and GETs from anywhere else.                                            *)

ViewerIds == {OwnId, IdString("viewer_b"), IdObject, IdString(""), IdUndefined}

Elapses == {HeartbeatMs, HeartbeatMs + 1}

InitViewers ==
  /\ users = {}
  /\ pharmacies = {}
  /\ orders = {}
  /\ delivery = {}
  /\ medicines = {}
  /\ inventory = {}
  /\ now = 0
  /\ resp = NoReply
  /\ probe = NoProbe
  /\ calc = NoCall
  /\ pending = {}
  /\ foreignKeys = TRUE
  /\ InitAside

NextViewers ==
  \/ \E viewerId \in ViewerIds : ViewersPOST(viewerId)
  \/ ViewersGET
  \/ Mount
  \/ Heartbeat
  \/ Unmount
  \/ \E ms \in Elapses : Elapse(ms)

SpecViewers == InitViewers /\ [][NextViewers]_vars

ViewersAnswered == resp.op \in {"viewersPOST", "viewersGET"} /\ resp.status = 200

\* the viewer IDs whose most recent POST happened at most VIEWER_TIMEOUT
\* before the given time
RecentViewers(time) == {id \in DOMAIN lastPost : time - lastPost[id] <= VIEWER_TIMEOUT}

\* C21: the activeViewers count of a POST or GET response is the number of
\* distinct viewer IDs whose most recent POST happened at most 30000 ms
\* before the request was processed; repeated POSTs of one ID count once.
C21_CountIsRecentViewers ==
  ViewersAnswered => resp.body.activeViewers = Cardinality(RecentViewers(answeredAt))

\* C22: while the component is mounted and posts every 10 seconds, every
\* response issued after its first POST counts its viewer ID.
C22_PostingViewerCounted ==
  (heartbeat # Null /\ ViewersAnswered) =>
    /\ MapKey(OwnId) \in DOMAIN activeViewers
    /\ resp.body.activeViewers = Cardinality(DOMAIN activeViewers)

\* the component has posted three heartbeats, another viewer has expired in
\* between, and a GET is answered VIEWER_TIMEOUT after the component's
\* first POST
C22_Witness ==
  /\ heartbeat # Null
  /\ heartbeat[1] >= 3 * HeartbeatMs
  /\ IdString("viewer_b") \in DOMAIN lastPost
  /\ MapKey(IdString("viewer_b")) \notin DOMAIN activeViewers
  /\ resp.op = "viewersGET"
  /\ answeredAt > heartbeat[1]
  /\ resp.body.activeViewers = 1

----------------------------------------------------------------------------
(* Payment verification and the payment webhook.  A text is a sequence of  *)
(* tokens; createHmac(...).update(text).digest('hex') is a value fixed by  *)
(* the key and the text, different for different keys or texts.            *)

RAZORPAY_KEY_SECRET == "key_secret"

Digest(key, text) == [key |-> key, text |-> text]

\* the empty string where a signature is expected
EmptyHex == Digest("", <<>>)

\* a string that is no digest at all
JunkHex == Digest("junk", <<>>)

\* !field of a body field that is undefined (Null) or a string
Missing(field) == field = Null \/ field[1] = <<>> \/ field[1] = EmptyHex

\* `${razorpay_order_id}|${razorpay_payment_id}`
BodyString(razorpay_order_id, razorpay_payment_id) ==
  razorpay_order_id \o <<"|">> \o razorpay_payment_id

\* a check that lets every payment through that has not failed
PaymentCaptured_NotFailed(status) == status # "failed"

PaymentCaptured(status) == status = "captured"

\* razorpayInstance.payments.fetch: the payment, or an error for an id the
\* gateway does not know
PaymentKnown(razorpay_payment_id) == razorpay_payment_id \in DOMAIN gateway

\* razorpayInstance.orders.fetch: the model's gateway knows every order id
\* that holds no separator
OrderKnown(razorpay_order_id) == Len(razorpay_order_id) = 1

PaymentLog(body, calls, reported, handled) ==
  [body |-> body, calls |-> calls, reported |-> reported, handled |-> handled]

\* the reply and the log of POST /api/payment/verify
PaymentVerifyResult(body) ==
  LET order == body.razorpay_order_id
      payment == body.razorpay_payment_id
      signature == body.razorpay_signature
      op == "verifyPOST"
  IN  IF Missing(order) \/ Missing(payment) \/ Missing(signature)
      THEN [reply |-> Reply(op, 400, "Missing required fields", NoBody),
            log |-> PaymentLog(body, 0, Null, FALSE)]
      ELSE IF Digest(RAZORPAY_KEY_SECRET, BodyString(order[1], payment[1])) # signature[1]
      THEN [reply |-> Reply(op, 401, "Invalid signature", NoBody),
            log |-> PaymentLog(body, 0, Null, FALSE)]
      ELSE IF ~PaymentKnown(payment[1])
      THEN [reply |-> InternalError(op), log |-> PaymentLog(body, 1, Null, FALSE)]
      ELSE IF ~PaymentCaptured(gateway[payment[1]])
      THEN [reply |-> Reply(op, 400, "Payment not captured", NoBody),
            log |-> PaymentLog(body, 1, Some(gateway[payment[1]]), FALSE)]
      ELSE IF ~OrderKnown(order[1])
      THEN [reply |-> InternalError(op),
            log |-> PaymentLog(body, 2, Some(gateway[payment[1]]), FALSE)]
      ELSE [reply |-> Reply(op, 200, "",
                            [success |-> TRUE, payment |-> payment[1], order |-> order[1]]),
            log |-> PaymentLog(body, 2, Some(gateway[payment[1]]), FALSE)]

PaymentVerifyPOST(body) ==
  /\ LET result == PaymentVerifyResult(body)
     IN  resp' = result.reply /\ paymentLog' = result.log
  /\ UNCHANGED <<tables, now, probe, others, viewers, gateway, webhookSecret, client, lists>>

\* a check that does not ask whether the secret is configured
verifyWebhookSignature_AnySecret(body, signature) ==
  Digest(webhookSecret, body) = signature

verifyWebhookSignature(body, signature) ==
  IF webhookSecret = "" THEN FALSE ELSE Digest(webhookSecret, body) = signature

\* the body of a webhook request is a text of one token; JSON.parse of it
\* throws, or gives a payload with an event and the entities it carries
IsJson(body) == body[1].json

\* payload.payload.payment?.entity.id and payload.payload.order?.entity.id
\* throw when payload.payload is missing, or when the payment or the order
\* is there without its entity
EventHandlingThrows(payload) ==
  /\ payload.event \in {"payment.captured", "payment.failed", "order.paid"}
  /\ payload.shape \in {"noPayload", "noEntity"}

\* signature is the x-razorpay-signature header: Null when it is not sent
PaymentWebhookResult(body, signature) ==
  LET op == "webhookPOST"
  IN  IF signature = Null \/ signature[1] = EmptyHex
      THEN [reply |-> Reply(op, 400, "Missing signature header", NoBody), handled |-> FALSE]
      ELSE IF ~verifyWebhookSignature(body, signature[1])
      THEN [reply |-> Reply(op, 401, "Invalid webhook signature", NoBody), handled |-> FALSE]
      ELSE IF ~IsJson(body)
      THEN [reply |-> InternalError(op), handled |-> FALSE]
      ELSE IF EventHandlingThrows(body[1])
      THEN [reply |-> InternalError(op), handled |-> TRUE]
      ELSE [reply |-> Reply(op, 200, "", [received |-> TRUE]), handled |-> TRUE]

PaymentWebhookPOST(body, signature) ==
  /\ LET result == PaymentWebhookResult(body, signature)
     IN  /\ resp' = result.reply
         /\ paymentLog' = PaymentLog([body |-> body, signature |-> signature], 0, Null,
                                     result.handled)
  /\ UNCHANGED <<tables, now, probe, others, viewers, gateway, webhookSecret, client, lists>>

\* the gateway moves a payment on
GatewayStep(razorpay_payment_id, status) ==
  /\ razorpay_payment_id \in DOMAIN gateway
  /\ <<gateway[razorpay_payment_id], status>> \in
       {<<"created", "authorized">>, <<"created", "failed">>, <<"authorized", "captured">>}
  /\ gateway' = [gateway EXCEPT ![razorpay_payment_id] = status]
  /\ UNCHANGED <<tables, now, resp, probe, others, viewers, webhookSecret, paymentLog, client,
                 lists>>

----------------------------------------------------------------------------
(* The payments specification: two payments at the gateway, a webhook      *)
(* secret that is configured or not, and requests from anyone.             *)

OrderIds == {<<"order_A">>, <<"order_A", "|", "pay_X">>}

PaymentIds == {<<"pay_X">>, <<"pay_Y">>, <<"pay_X", "|", "pay_Y">>}

PaymentStatuses == {"created", "authorized", "captured", "failed"}

Keys == {RAZORPAY_KEY_SECRET, "webhook_secret", ""}

\* a body field that holds an id: left out, the empty string, or the id
IdFields(ids) == {Some(id) : id \in ids} \cup {Null, Some(<<>>)}

\* the text a client would sign for a body, the empty text when an id is
\* left out
SignedText(o, p) == IF o = Null \/ p = Null THEN <<>> ELSE BodyString(o[1], p[1])

\* the signatures a request may carry for a text: no signature, the empty
\* string, a string that is no digest, the digest of the text under each
\* key, and the digest of another text under the secret
SignaturesFor(text, another) ==
  {Some(Digest(key, text)) : key \in Keys}
  \cup {Null, Some(EmptyHex), Some(JunkHex), Some(Digest(RAZORPAY_KEY_SECRET, another)),
        Some(Digest("webhook_secret", another))}

VerifyBodies ==
  {[razorpay_order_id |-> f[1], razorpay_payment_id |-> f[2], razorpay_signature |-> f[3]] :
     f \in {<<o, p, sig>> \in IdFields(OrderIds) \X IdFields(PaymentIds \ {<<"pay_Y">>})
                                \X SignaturesFor(<<>>, <<"order_A", "|", "pay_Y">>) : TRUE}
           \cup {<<o, p, sig>> \in IdFields(OrderIds) \X IdFields(PaymentIds)
                                \X {Some(Digest(RAZORPAY_KEY_SECRET, text)) :
                                      text \in {BodyString(a, b) : a \in OrderIds,
                                                                   b \in PaymentIds}} :
                   sig = Some(Digest(RAZORPAY_KEY_SECRET, SignedText(o, p)))}}

WebhookPayload(json, event, shape) == <<[json |-> json, event |-> event, shape |-> shape]>>

WebhookBodies ==
  {WebhookPayload(TRUE, event, shape) :
     event \in {"payment.captured", "refund.created"},
     shape \in {"entity", "noPayment", "noEntity", "noPayload"}}
  \cup {WebhookPayload(FALSE, "", "")}

WebhookSignatures(body) ==
  SignaturesFor(body, WebhookPayload(TRUE, "order.paid", "entity"))

InitPayments ==
  /\ users = {}
  /\ pharmacies = {}
  /\ orders = {}
  /\ delivery = {}
  /\ medicines = {}
  /\ inventory = {}
  /\ now = 0
  /\ resp = NoReply
  /\ probe = NoProbe
  /\ calc = NoCall
  /\ pending = {}
  /\ foreignKeys = TRUE
  /\ activeViewers = <<>>
  /\ clock = 0
  /\ allocated = 0
  /\ lastPost = <<>>
  /\ answeredAt = 0
  /\ heartbeat = <<>>
  /\ gateway \in [{<<"pay_X">>, <<"pay_Y">>} -> {"created", "captured"}]
  /\ webhookSecret \in {"", "webhook_secret"}
  /\ paymentLog = PaymentLog(<<>>, 0, Null, FALSE)
  /\ checkout = [pc |-> "idle", onSuccess |-> "returns", onError |-> TRUE, trail |-> <<>>]
  /\ orderItems = {}
  /\ limitClause = "nonNegative"

NextPayments ==
  \/ \E body \in VerifyBodies : PaymentVerifyPOST(body)
  \/ \E body \in WebhookBodies : \E signature \in WebhookSignatures(body) :
       PaymentWebhookPOST(body, signature)
  \/ \E p \in PaymentIds : \E status \in PaymentStatuses : GatewayStep(p, status)

SpecPayments == InitPayments /\ [][NextPayments]_vars

\* C23: POST /api/payment/verify answers success only if the signature is
\* the HMAC-SHA256 of 'order_id|payment_id' under the key secret and the
\* gateway reported the payment as captured; a missing field gives 400, a
\* signature mismatch gives 401 with no call to the gateway, and a payment
\* reported as not captured gives 400.
C23_VerifyOnlySignedAndCaptured ==
  resp.op = "verifyPOST" =>
    LET body == paymentLog.body
        missing == \/ Missing(body.razorpay_order_id)
                   \/ Missing(body.razorpay_payment_id)
                   \/ Missing(body.razorpay_signature)
        signed == body.razorpay_signature =
                    Some(Digest(RAZORPAY_KEY_SECRET,
                                body.razorpay_order_id[1] \o <<"|">>
                                  \o body.razorpay_payment_id[1]))
    IN  /\ resp.status = 200 =>
             ~missing /\ signed /\ paymentLog.reported = Some("captured")
        /\ missing => resp.status = 400
        /\ (~missing /\ ~signed) => (resp.status = 401 /\ paymentLog.calls = 0)
        /\ (~missing /\ signed /\ paymentLog.reported \notin {Null, Some("captured")})
             => resp.status = 400

\* a correctly signed verification of a captured payment was answered with
\* success after two calls to the gateway
C23_Witness ==
  /\ resp.op = "verifyPOST"
  /\ resp.status = 200
  /\ resp.body.success
  /\ paymentLog.calls = 2
  /\ paymentLog.body.razorpay_signature =
       Some(Digest(RAZORPAY_KEY_SECRET, <<"order_A", "|", "pay_X">>))

\* C24: POST /api/payment/webhook reaches event handling and answers
\* {received: true} only if the x-razorpay-signature header is present and
\* is the HMAC-SHA256 of the request body under the configured webhook
\* secret; a missing header gives 400, a mismatch or an unconfigured secret
\* gives 401.
C24_WebhookOnlySigned ==
  resp.op = "webhookPOST" =>
    LET body == paymentLog.body.body
        signature == paymentLog.body.signature
        signed == webhookSecret # "" /\ signature = Some(Digest(webhookSecret, body))
    IN  /\ (paymentLog.handled \/ resp.status = 200) => (signature # Null /\ signed)
        /\ signature = Null => resp.status = 400
        /\ (signature \notin {Null, Some(EmptyHex)} /\ ~signed) => resp.status = 401

\* a webhook signed under the configured secret was answered
\* {received: true}
C24_Witness ==
  /\ resp.op = "webhookPOST"
  /\ resp.status = 200
  /\ resp.body.received
  /\ paymentLog.handled
  /\ webhookSecret = "webhook_secret"
  /\ paymentLog.body.signature = Some(Digest(webhookSecret, paymentLog.body.body))

----------------------------------------------------------------------------
(* RazorpayCheckout: handlePayment and the handler it gives to the         *)
(* checkout widget.  checkout.trail lists, in order, the answers of the    *)
(* two routes and the calls of the onSuccess and onError props.            *)

\* how many times the widget reports payment.failed before it goes on
MaxFailures == 2

\* the answers of a fetch: a response that is ok or not, with a body that
\* is JSON or not, or no response at all
FetchOutcomes == {"ok", "okNotJson", "notOk", "notOkNotJson", "rejected"}

\* what the route answered
AnswerOf(outcome) == IF outcome \in {"ok", "okNotJson"} THEN "ok" ELSE "notOk"

\* a check of response.ok that every response passes
ResponseOk_Any(outcome) == outcome # "rejected"

\* response.ok
ResponseOk(outcome) == AnswerOf(outcome) = "ok"

\* response.json() throws
JsonThrows(outcome) == outcome \in {"okNotJson", "notOkNotJson"}

\* the entries of the trail for the answers of the two routes
CreateOrder(outcome) == IF AnswerOf(outcome) = "ok" THEN "create:ok" ELSE "create:notOk"

Verify(outcome) == IF AnswerOf(outcome) = "ok" THEN "verify:ok" ELSE "verify:notOk"

Went(pc, events) == checkout' = [checkout EXCEPT !.pc = pc, !.trail = checkout.trail \o events]

\* if (onError) onError(message)
CallOnError == IF checkout.onError THEN <<"onError">> ELSE <<>>

\* if (onSuccess) onSuccess(response), inside the handler's try block: when
\* the prop throws, the catch block calls onError
CallOnSuccess ==
  CASE checkout.onSuccess = "absent" -> <<>>
    [] checkout.onSuccess = "returns" -> <<"onSuccess">>
    [] checkout.onSuccess = "throws" -> <<"onSuccess">> \o CallOnError

ClientUnchanged == UNCHANGED <<tables, now, resp, probe, others, viewers, payments, lists>>

\* the button is clicked: handlePayment starts and awaits the script
Click ==
  /\ checkout.pc = "idle"
  /\ Went("script", <<>>)
  /\ ClientUnchanged

\* loadRazorpayScript resolves; when loaded, create-order is fetched
ScriptLoaded(isLoaded) ==
  /\ checkout.pc = "script"
  /\ IF isLoaded THEN Went("creating", <<>>) ELSE Went("done", CallOnError)
  /\ ClientUnchanged

\* the fetch of /api/payment/create-order settles; constructs is whether
\* new window.Razorpay(options) returns
CreateOrderAnswered(outcome, constructs) ==
  /\ checkout.pc = "creating"
  /\ IF outcome = "rejected"
     THEN Went("done", CallOnError)
     ELSE IF ~ResponseOk(outcome)
     THEN Went("done", <<CreateOrder(outcome)>> \o CallOnError)
     ELSE IF JsonThrows(outcome) \/ ~constructs
     THEN Went("done", <<CreateOrder(outcome)>> \o CallOnError)
     ELSE Went("open", <<CreateOrder(outcome)>>)
  /\ ClientUnchanged

\* razorpay.on('payment.failed', ...)
PaymentFailed ==
  /\ checkout.pc = "open"
  /\ Len(SelectSeq(checkout.trail, LAMBDA e : e = "failed")) < MaxFailures
  /\ Went("open", <<"failed">> \o CallOnError)
  /\ ClientUnchanged

\* modal.ondismiss
Dismissed ==
  /\ checkout.pc = "open"
  /\ Went("done", <<>>)
  /\ ClientUnchanged

\* the widget calls options.handler: /api/payment/verify is fetched
HandlerCalled ==
  /\ checkout.pc = "open"
  /\ Went("verifying", <<>>)
  /\ ClientUnchanged

\* the fetch of /api/payment/verify settles
VerifyAnswered(outcome) ==
  /\ checkout.pc = "verifying"
  /\ IF outcome = "rejected"
     THEN Went("done", CallOnError)
     ELSE IF ~ResponseOk(outcome)
     THEN Went("done", <<Verify(outcome)>> \o CallOnError)
     ELSE IF JsonThrows(outcome)
     THEN Went("done", <<Verify(outcome)>> \o CallOnError)
     ELSE Went("done", <<Verify(outcome)>> \o CallOnSuccess)
  /\ ClientUnchanged

----------------------------------------------------------------------------
(* The checkout specification: one payment, for each way the props are     *)
(* given.                                                                  *)

InitCheckout ==
  /\ users = {}
  /\ pharmacies = {}
  /\ orders = {}
  /\ delivery = {}
  /\ medicines = {}
  /\ inventory = {}
  /\ now = 0
  /\ resp = NoReply
  /\ probe = NoProbe
  /\ calc = NoCall
  /\ pending = {}
  /\ foreignKeys = TRUE
  /\ activeViewers = <<>>
  /\ clock = 0
  /\ allocated = 0
  /\ lastPost = <<>>
  /\ answeredAt = 0
  /\ heartbeat = <<>>
  /\ gateway = <<>>
  /\ webhookSecret = ""
  /\ paymentLog = PaymentLog(<<>>, 0, Null, FALSE)
  /\ \E onSuccess \in {"absent", "returns", "throws"} : \E onError \in BOOLEAN :
       checkout = [pc |-> "idle", onSuccess |-> onSuccess, onError |-> onError, trail |-> <<>>]
  /\ orderItems = {}
  /\ limitClause = "nonNegative"

NextCheckout ==
  \/ Click
  \/ \E isLoaded \in BOOLEAN : ScriptLoaded(isLoaded)
  \/ \E outcome \in FetchOutcomes : \E constructs \in BOOLEAN :
       CreateOrderAnswered(outcome, constructs)
  \/ PaymentFailed
  \/ Dismissed
  \/ HandlerCalled
  \/ \E outcome \in FetchOutcomes : VerifyAnswered(outcome)

SpecCheckout == InitCheckout /\ [][NextCheckout]_vars

\* the places of an event in the trail
Places(event) == {i \in 1..Len(checkout.trail) : checkout.trail[i] = event}

\* C25: onSuccess is called only after create-order answered ok and, after
\* that, verify answered ok; when create-order or verify answers non-ok,
\* onError (when given) is called and onSuccess is not.
C25_SuccessOnlyAfterVerify ==
  /\ \A k \in Places("onSuccess") :
       \E i \in Places("create:ok") : \E j \in Places("verify:ok") : i < j /\ j < k
  /\ \A n \in Places("create:notOk") \cup Places("verify:notOk") :
       /\ Places("onSuccess") = {}
       /\ checkout.onError => \E k \in Places("onError") : n < k

\* create-order answered ok, a payment attempt failed, verify answered ok
\* and onSuccess was called last
C25_Witness ==
  checkout.trail = <<"create:ok", "failed", "onError", "verify:ok", "onSuccess">>

----------------------------------------------------------------------------
(* The timestamps a delivery PUT sets on a status change.                  *)

\* PUT bodies that change the status, set or clear a timestamp, or both
StampPutBodies ==
  {[EmptyPut EXCEPT !.status = Def(Some(st))] : st \in {"accepted", "picked_up", "delivered"}}
  \cup {[EmptyPut EXCEPT !.pickedUpAt = Def(ts)] :
          ts \in {Null, <<0, 0>>, <<1, MaxTime + FutureLead>>}}
  \cup {[EmptyPut EXCEPT !.deliveredAt = Def(Null)],
        [EmptyPut EXCEPT !.status = Def(Some("picked_up")), !.pickedUpAt = Def(Null)],
        [EmptyPut EXCEPT !.status = Def(Some("delivered")),
                         !.currentLatitude = Def(Some(FarDestLat)),
                         !.currentLongitude = Def(Some(MeridianLon))],
        [EmptyPut EXCEPT !.status = Def(Some("picked_up")),
                         !.currentLatitude = Def(Some(91 * Deg))]}

NextStamps ==
  \/ \E st \in {"assigned", "picked_up"} : DeliveryPOST([EmptyPost EXCEPT !.status = Some(st)])
  \/ \E body \in StampPutBodies : DeliveryPUT(Text(1), body)
  \/ Tick

SpecStamps == InitFrame /\ [][NextStamps]_vars

\* the step is the PUT of the body on delivery 1, answered 200
PutStepOf(body) ==
  /\ delivery # {}
  /\ resp' = DeliveryPUTResult(Text(1), body).reply
  /\ delivery' = DeliveryPUTResult(Text(1), body).rows
  /\ resp'.status = 200

----------------------------------------------------------------------------
(* The list GETs of orders, inventory, order items and medicines.  A text  *)
(* parameter is Null when it is not sent, Some("") when it is empty.       *)

\* the cap and the default of the limit parameter
MaxListLimit == 100

DefaultLimit == 10

VALID_CATEGORIES ==
  {"prescription", "otc", "supplement", "device", "first_aid", "baby_care", "personal_care"}

ListRoutes == {"orders", "inventory", "orderItems", "medicines"}

TableOf(route) ==
  CASE route = "orders" -> orders
    [] route = "inventory" -> inventory
    [] route = "orderItems" -> orderItems
    [] route = "medicines" -> medicines

\* truthiness of a text parameter
GivenText(p) == p # Null /\ p[1] # ""

\* Math.min(parseInt(searchParams.get('limit') ?? '10'), 100)
LimitOf(q) ==
  IF q.limit = Absent THEN Num(DefaultLimit)
  ELSE IF IsNaN(ParseInt(q.limit)) THEN NaN
  ELSE IF ParseInt(q.limit).v < MaxListLimit THEN ParseInt(q.limit) ELSE Num(MaxListLimit)

\* parseInt(searchParams.get('offset') ?? '0')
OffsetOf(q) == IF q.offset = Absent THEN Num(0) ELSE ParseInt(q.offset)

\* the 400 a filter parameter is answered with, "" when there is none
ListRejection(route, q) ==
  CASE route = "orders" ->
         IF Present(q.userId) /\ IsNaN(ParseInt(q.userId)) THEN "INVALID_USER_ID"
         ELSE IF Present(q.pharmacyId) /\ IsNaN(ParseInt(q.pharmacyId))
         THEN "INVALID_PHARMACY_ID"
         ELSE IF GivenText(q.status) /\ q.status[1] \notin VALID_STATUSES_ORDERS
         THEN "INVALID_STATUS"
         ELSE ""
    [] route = "inventory" ->
         IF Present(q.pharmacyId) /\ IsNaN(ParseInt(q.pharmacyId)) THEN "INVALID_PHARMACY_ID"
         ELSE IF Present(q.medicineId) /\ IsNaN(ParseInt(q.medicineId))
         THEN "INVALID_MEDICINE_ID"
         ELSE ""
    [] route = "orderItems" ->
         IF Present(q.orderId) /\ IsNaN(ParseInt(q.orderId)) THEN "INVALID_ORDER_ID"
         ELSE IF Present(q.medicineId) /\ IsNaN(ParseInt(q.medicineId))
         THEN "INVALID_MEDICINE_ID"
         ELSE ""
    [] route = "medicines" ->
         IF GivenText(q.category) /\ q.category[1] \notin VALID_CATEGORIES
         THEN "INVALID_CATEGORY"
         ELSE ""

\* the conditions of the where clause; a medicine's name, brand and salt
\* composition are one text in the model, and like '%term%' holds when the
\* term is that text
ListMatches(route, q, row) ==
  CASE route = "orders" ->
         /\ Present(q.userId) => row.userId = ParseInt(q.userId).v
         /\ Present(q.pharmacyId) => row.pharmacyId = ParseInt(q.pharmacyId).v
         /\ GivenText(q.status) => row.status = q.status[1]
    [] route = "inventory" ->
         /\ Present(q.pharmacyId) => row.pharmacyId = ParseInt(q.pharmacyId).v
         /\ Present(q.medicineId) => row.medicineId = ParseInt(q.medicineId).v
         /\ q.isAvailable # Null => row.isAvailable = (q.isAvailable = Some("true"))
    [] route = "orderItems" ->
         /\ Present(q.orderId) => row.orderId = ParseInt(q.orderId).v
         /\ Present(q.medicineId) => row.medicineId = ParseInt(q.medicineId).v
    [] route = "medicines" ->
         /\ GivenText(q.search) => row.name = q.search[1]
         /\ GivenText(q.category) => row.category = q.category[1]
         /\ q.requiresPrescription # Null =>
              row.requiresPrescription = (q.requiresPrescription = Some("true"))

\* whether the query builder writes a LIMIT clause for .limit(n)
LimitSql(limit) ==
  /\ ~IsNaN(limit)
  /\ IF limitClause = "truthy" THEN limit.v # 0 ELSE limit.v >= 0

\* whether it writes an OFFSET clause for .offset(m)
OffsetSql(offset) == ~IsNaN(offset) /\ offset.v # 0

\* SQLite rejects an OFFSET clause that follows no LIMIT clause
QueryFails(limit, offset) == ~LimitSql(limit) /\ OffsetSql(offset)

\* the rows of a select in the order of their ids: SQLite skips no row for
\* an offset below 0 and returns every row for a limit below 0
QueryRows(rows, limit, offset) ==
  LET skip == IF OffsetSql(offset) /\ offset.v > 0 THEN offset.v ELSE 0
      bounded == LimitSql(limit) /\ limit.v >= 0
      place(r) == Cardinality({other \in rows : other.id <= r.id})
  IN  IF skip = 0 /\ (~bounded \/ limit.v >= Cardinality(rows)) THEN rows
      ELSE {r \in rows : place(r) > skip /\ (bounded => place(r) <= skip + limit.v)}

ListGETResult(route, q) ==
  LET op == route \o "GET"
      found == {r \in TableOf(route) : r.id = ParseInt(q.id).v}
      matching == {r \in TableOf(route) : ListMatches(route, q, r)}
  IN  IF Present(q.id)
      THEN IF IsNaN(ParseInt(q.id)) THEN Reply(op, 400, "INVALID_ID", NoBody)
           ELSE IF found = {} THEN Reply(op, 404, "NOT_FOUND", NoBody)
           ELSE Reply(op, 200, "", [row |-> Row(found)])
      ELSE IF ListRejection(route, q) # "" THEN Reply(op, 400, ListRejection(route, q), NoBody)
      ELSE IF QueryFails(LimitOf(q), OffsetOf(q)) THEN InternalError(op)
      ELSE Reply(op, 200, "", [list |-> QueryRows(matching, LimitOf(q), OffsetOf(q))])

ListGET(route, q) ==
  /\ resp' = ListGETResult(route, q)
  /\ UNCHANGED <<tables, now, probe, others, viewers, payments, client, lists>>

----------------------------------------------------------------------------
(* The lists specification: four tables of ListRows rows each.             *)

\* the rows of each table
ListRows == 101

ListRow(route, i) ==
  CASE route = "orders" ->
         [id |-> i, userId |-> 1 + (i % 2), pharmacyId |-> 1,
          status |-> IF i % 3 = 0 THEN "pending" ELSE "delivered"]
    [] route = "inventory" ->
         [id |-> i, pharmacyId |-> 1 + (i % 2), medicineId |-> 1, isAvailable |-> i % 3 # 0]
    [] route = "orderItems" -> [id |-> i, orderId |-> 1 + (i % 2), medicineId |-> 1]
    [] route = "medicines" ->
         [id |-> i, name |-> IF i % 3 = 0 THEN "aspirin" ELSE "ibuprofen", category |-> "otc",
          requiresPrescription |-> FALSE]

EmptyQuery ==
  [id |-> Absent, limit |-> Absent, offset |-> Absent, userId |-> Absent,
   pharmacyId |-> Absent, medicineId |-> Absent, orderId |-> Absent, status |-> Null,
   isAvailable |-> Null, search |-> Null, category |-> Null, requiresPrescription |-> Null]

\* the limit parameter: absent, empty, non-numeric, zero, negative, below
\* the cap, at the cap and above it
Limits == {Absent, Empty, Junk, Text(0), Text(-1), Text(5), Text(100), Text(250)}

ListQueries ==
  {[EmptyQuery EXCEPT !.limit = l, !.offset = o] : l \in Limits, o \in {Absent, Text(2), Junk}}
  \cup {[EmptyQuery EXCEPT !.limit = l, !.userId = Text(1), !.pharmacyId = Text(2),
                           !.orderId = Text(1), !.search = Some("aspirin")] :
          l \in {Absent, Text(-1)}}
  \cup {[EmptyQuery EXCEPT !.id = i] : i \in {Text(1), Text(999), Junk}}
  \cup {[EmptyQuery EXCEPT !.userId = Junk, !.medicineId = Junk, !.category = Some("bogus")],
        [EmptyQuery EXCEPT !.status = Some("bogus"), !.pharmacyId = Junk, !.orderId = Junk],
        [EmptyQuery EXCEPT !.status = Some("pending"), !.isAvailable = Some("true"),
                           !.category = Some("otc"), !.requiresPrescription = Some("false")]}

InitLists ==
  /\ users = {}
  /\ pharmacies = {}
  /\ orders = {ListRow("orders", i) : i \in 1..ListRows}
  /\ delivery = {}
  /\ medicines = {ListRow("medicines", i) : i \in 1..ListRows}
  /\ inventory = {ListRow("inventory", i) : i \in 1..ListRows}
  /\ now = 0
  /\ resp = NoReply
  /\ probe = NoProbe
  /\ calc = NoCall
  /\ pending = {}
  /\ foreignKeys = TRUE
  /\ activeViewers = <<>>
  /\ clock = 0
  /\ allocated = 0
  /\ lastPost = <<>>
  /\ answeredAt = 0
  /\ heartbeat = <<>>
  /\ gateway = <<>>
  /\ webhookSecret = ""
  /\ paymentLog = PaymentLog(<<>>, 0, Null, FALSE)
  /\ checkout = [pc |-> "idle", onSuccess |-> "returns", onError |-> TRUE, trail |-> <<>>]
  /\ orderItems = {ListRow("orderItems", i) : i \in 1..ListRows}
  /\ limitClause \in {"truthy", "nonNegative"}

NextLists == \E route \in ListRoutes : \E q \in ListQueries : ListGET(route, q)

SpecLists == InitLists /\ [][NextLists]_vars

\* C27: a list GET of orders, inventory, order items or medicines returns
\* at most 100 rows, for every value of the limit parameter.
C27_AtMostHundredRows ==
  (/\ resp.op \in {"ordersGET", "inventoryGET", "orderItemsGET", "medicinesGET"}
   /\ resp.status = 200
   /\ "list" \in DOMAIN resp.body)
  => Cardinality(resp.body.list) <= MaxListLimit

----------------------------------------------------------------------------
(* Pharmacies PUT.  A pharmacy row of the model keeps the columns id,      *)
(* latitude, longitude and isActive; of the other fields of a body the     *)
(* model keeps those whose validation can reject the request.              *)

\* body.latitude and body.longitude are body fields holding Null or a
\* number; body.email holds whether the text matches the pattern;
\* body.rating holds a number of stars
PharmaciesPUTResult(id, body) ==
  LET existingPharmacy == {ph \in pharmacies : ph.id = ParseInt(id).v}
      latitude == CoordOf(body.latitude.val)
      longitude == CoordOf(body.longitude.val)
      fail(status, code) == [reply |-> Reply("pharmaciesPUT", status, code, NoBody),
                             rows |-> pharmacies]
  IN
  IF ~Present(id) \/ IsNaN(ParseInt(id)) THEN fail(400, "INVALID_ID")
  ELSE IF existingPharmacy = {} THEN fail(404, "PHARMACY_NOT_FOUND")
  ELSE IF /\ body.latitude.def
          /\ (IsNaN(latitude) \/ latitude.v < -90 * Deg \/ latitude.v > 90 * Deg)
  THEN fail(400, "INVALID_LATITUDE")
  ELSE IF /\ body.longitude.def
          /\ (IsNaN(longitude) \/ longitude.v < -180 * Deg \/ longitude.v > 180 * Deg)
  THEN fail(400, "INVALID_LONGITUDE")
  ELSE IF body.email.def /\ ~body.email.val THEN fail(400, "INVALID_EMAIL")
  ELSE IF body.rating.def /\ (body.rating.val < 0 \/ body.rating.val > 5)
  THEN fail(400, "INVALID_RATING")
  ELSE LET old == Row(existingPharmacy)
           updated == [id |-> old.id,
                       latitude |-> IF body.latitude.def THEN latitude.v ELSE old.latitude,
                       longitude |-> IF body.longitude.def THEN longitude.v ELSE old.longitude,
                       isActive |-> IF body.isActive.def THEN body.isActive.val
                                    ELSE old.isActive]
       IN  [reply |-> Reply("pharmaciesPUT", 200, "", updated),
            rows |-> (pharmacies \ existingPharmacy) \cup {updated}]

PharmaciesPUT(id, body) ==
  /\ LET result == PharmaciesPUTResult(id, body)
     IN  resp' = result.reply /\ pharmacies' = result.rows
  /\ UNCHANGED <<users, orders, delivery, medicines, inventory, now, probe, others, aside>>

----------------------------------------------------------------------------
(* The pharmacy-estimate specification: one pharmacy that PUTs move along  *)
(* the meridian and onto the equator and the prime meridian, and           *)
(* delivery estimates from it.                                             *)

EmptyPharmacyPut ==
  [latitude |-> Undef, longitude |-> Undef, isActive |-> Undef, email |-> Undef,
   rating |-> Undef]

PharmacyPutBodies ==
  {[EmptyPharmacyPut EXCEPT !.latitude = Def(lat)] :
     lat \in {Some(0), Some(PharmacyLat), Some(PharmacyLat + 450), Some(90 * Deg + 1), Null}}
  \cup {[EmptyPharmacyPut EXCEPT !.longitude = Def(lon)] :
          lon \in {Some(0), Some(MeridianLon), Some(-180 * Deg - 1)}}
  \cup {[EmptyPharmacyPut EXCEPT !.isActive = Def(FALSE)],
        [EmptyPharmacyPut EXCEPT !.latitude = Def(Some(0)), !.email = Def(FALSE)],
        [EmptyPharmacyPut EXCEPT !.email = Def(TRUE), !.rating = Def(5)],
        [EmptyPharmacyPut EXCEPT !.longitude = Def(Some(0)), !.rating = Def(6)]}

PharmacyPutRequests ==
  {<<Text(1), body>> : body \in PharmacyPutBodies}
  \cup {<<Text(9), EmptyPharmacyPut>>, <<Junk, EmptyPharmacyPut>>}

PharmacyEstimateBodies ==
  {[pharmacyId |-> id, deliveryLatitude |-> loc[1], deliveryLongitude |-> loc[2]] :
     id \in {Text(1), Text(9)},
     loc \in {<<Text(PharmacyLat + 180), Text(MeridianLon)>>,
              <<Text(0), Text(MeridianLon)>>,
              <<Text(90 * Deg + 1), Text(MeridianLon)>>,
              <<Junk, Text(MeridianLon)>>}}

NextPharmacyEstimate ==
  \/ \E req \in PharmacyPutRequests : PharmaciesPUT(req[1], req[2])
  \/ \E body \in PharmacyEstimateBodies : EstimatePOST(body)

SpecPharmacyEstimate == InitFrame /\ [][NextPharmacyEstimate]_vars

\* the step is the estimate POST of the body
EstimateStepOf(body) ==
  /\ resp' = EstimateResult(body).reply
  /\ probe' = Probe(body.deliveryLatitude, body.deliveryLongitude, EstimateResult(body))

\* a request value that is the text of a number in the range
InRangeParam(p, limit) == p.s = "num" /\ p.n >= -limit /\ p.n <= limit

\* C28: the delivery-estimate POST answers 200 for every request whose
\* pharmacyId names an existing pharmacy and whose delivery latitude lies
\* in [-90, 90] and longitude in [-180, 180], for every pharmacy coordinate
\* pair that the pharmacy handlers accept.
C28_EstimateForAcceptedPharmacy ==
  [][\A body \in PharmacyEstimateBodies :
       (/\ EstimateStepOf(body)
        /\ {ph \in pharmacies : ph.id = ParseInt(body.pharmacyId).v} # {}
        /\ InRangeParam(body.deliveryLatitude, 90 * Deg)
        /\ InRangeParam(body.deliveryLongitude, 180 * Deg))
       => resp'.status = 200]_vars

----------------------------------------------------------------------------
(* The nearby specification: more pharmacies than the largest limit, in    *)
(* pairs at equal distances north and south of the user along the          *)
(* meridian, some of them switched off and on by pharmacy PUTs.            *)

NearbyRows == 52

NearbyStep == 10

\* pharmacy 2k - 1 lies k steps north of the user, pharmacy 2k k steps south
NearbyPharmacy(id, active) ==
  [id |-> id,
   latitude |-> IF id % 2 = 1 THEN PharmacyLat + NearbyStep * ((id + 1) \div 2)
                ELSE PharmacyLat - NearbyStep * (id \div 2),
   longitude |-> MeridianLon,
   isActive |-> active]

NearbyPutRequests ==
  {<<Text(id), [EmptyPharmacyPut EXCEPT !.isActive = Def(active)]>> :
     id \in {1, NearbyRows}, active \in BOOLEAN}

NearbyNearQueries ==
  {[latitude |-> Text(PharmacyLat), longitude |-> Text(MeridianLon), radius |-> r,
    limit |-> l, isActive |-> a] :
     r \in {Absent, Text(100)},
     l \in {Absent, Text(3), Text(60), Text(0), Junk},
     a \in {"true", "false"}}
  \cup {[latitude |-> Text(PharmacyLat), longitude |-> Text(MeridianLon),
         radius |-> Text(5001), limit |-> Text(-1), isActive |-> "absent"]}

InitNearby ==
  /\ users = {[id |-> 1]}
  /\ \E inactive \in {{}, {3}} :
       pharmacies = {NearbyPharmacy(id, id \notin inactive) : id \in 1..NearbyRows}
  /\ orders = {}
  /\ delivery = {}
  /\ medicines = {[id |-> 1]}
  /\ inventory = {}
  /\ now = 0
  /\ resp = NoReply
  /\ probe = NoProbe
  /\ calc = NoCall
  /\ pending = {}
  /\ foreignKeys = TRUE
  /\ InitAside

NextNearby ==
  \/ \E req \in NearbyPutRequests : PharmaciesPUT(req[1], req[2])
  \/ \E q \in NearbyNearQueries : NearbyGET(q)

SpecNearby == InitNearby /\ [][NextNearby]_vars

\* the step is the nearby GET of the query, answered 200
NearbyStepOf(q) ==
  /\ resp'.op = "nearbyGET"
  /\ resp'.status = 200
  /\ resp'.body.radius = (IF Present(q.radius) THEN ParseFloat(q.radius).v ELSE 1000)
  /\ resp' = NearbyResult(q).reply
  /\ probe' = Probe(q.latitude, q.longitude, NearbyResult(q))

\* the rounded distance of a pharmacy from the user of the query
RoundedDistance(q, ph) ==
  calculateDistanceN(ParseFloat(q.latitude).v, ParseFloat(q.longitude).v,
                     ph.latitude, ph.longitude)

\* the pharmacies the query asks among: within the radius, and active
\* unless isActive=false is passed
NearbyCandidates(q) ==
  LET radius == IF Present(q.radius) THEN ParseFloat(q.radius).v ELSE 1000
  IN  {ph \in pharmacies : /\ q.isActive = "false" \/ ph.isActive
                           /\ RoundedDistance(q, ph) <= radius}

\* the answer lists, nearest first, the Min(limit, 50) nearest candidates
IsNearestAnswer(q, body) ==
  LET list == body.pharmacies
      limit == IF Present(q.limit) THEN ParseInt(q.limit).v ELSE 10
      listed == {list[i].id : i \in 1..Len(list)}
      candidates == NearbyCandidates(q)
  IN  /\ Len(list) = Min(Min(limit, 50), Cardinality(candidates))
      /\ Cardinality(listed) = Len(list)
      /\ \A i \in 1..Len(list) :
           \E ph \in candidates : /\ ph.id = list[i].id
                                  /\ list[i].distance = RoundedDistance(q, ph)
      /\ \A i \in 1..Len(list) : \A j \in i..Len(list) :
           list[i].distance <= list[j].distance
      /\ \A ph \in candidates :
           ph.id \notin listed =>
             \A i \in 1..Len(list) : list[i].distance <= RoundedDistance(q, ph)
      /\ body.count = Len(list)

\* C29: the nearby-pharmacy GET returns, in order of non-decreasing
\* distance, exactly the min(limit, 50) nearest pharmacies among those whose
\* rounded distance from the user is at most radius, restricted to active
\* pharmacies unless isActive=false is passed; count equals the number of
\* pharmacies returned.
C29_NearestWithinRadius ==
  [][\A q \in NearbyNearQueries :
       NearbyStepOf(q) => IsNearestAnswer(q, resp'.body)]_vars

\* a nearby GET answered with 50 of more than 50 active pharmacies in the
\* radius, while some pharmacy is inactive
C29_Witness ==
  /\ resp.op = "nearbyGET"
  /\ resp.status = 200
  /\ resp.body.count = 50
  /\ Cardinality({ph \in pharmacies : ph.isActive}) > 50
  /\ \E ph \in pharmacies : ~ph.isActive

====
